---- MODULE Spec2Model ----
(***************************************************************************)
(* A model of the PCIe interrupt management engine of                      *)
(* kernel/dev/pcie/pcie_irqs.cpp: the per-device IRQ state, the shared     *)
(* legacy dispatcher, the MSI dispatcher and the driver-facing control     *)
(* plane.                                                                  *)
(*                                                                         *)
(* The routines of the source are operators from a world record (the       *)
(* devices, the shared legacy handlers, the platform's interrupt           *)
(* controller state) to the world after the routine has run; an action of  *)
(* the sequential specification Spec applies one public operation, one     *)
(* dispatch or one environment event to the current world.                 *)
(*                                                                         *)
(* DEBUG_ASSERT compiles to nothing in a release build.  The model runs as *)
(* the release build does and records in dbg the source line of the first  *)
(* DEBUG_ASSERT the last operation would have tripped in a debug build     *)
(* (0: none).                                                              *)
(*                                                                         *)
(* The concurrent specifications SpecConc and SpecCmd run the same         *)
(* routines one step at a time (a step: a lock acquisition, a register     *)
(* read, a register write, a driver callback) on a control-plane thread,   *)
(* the dispatchers and another writer of the command register; pc, lock    *)
(* and loc belong to them and rest in Spec.                                *)
(***************************************************************************)
EXTENDS Integers, Sequences, FiniteSets, TLC

VARIABLES
    dev,             \* device id -> pcie_device_state_t (irq state and config registers)
    sh,              \* instance id -> SharedLegacyIrqHandler
    legacy_irq_list, \* PcieBusDriver::legacy_irq_list_: the registered instances
    vec,             \* platform: system vector -> [masked, handler]
    msiplat,         \* platform: device -> state of the MSI block lent to it
    platform,        \* platform capabilities: supports_msi, supports_msi_masking
    ret,             \* status returned by the last operation
    dbg,             \* line of the first DEBUG_ASSERT the last operation tripped
    calls,           \* the driver callbacks the last operation invoked, in order
    op,              \* the last operation and its inputs
    pc,              \* thread -> where it stands in the routine it executes
    lock,            \* spinlock or mutex -> the thread that holds it, or NULL
    loc              \* thread -> its local variables

vars == <<dev, sh, legacy_irq_list, vec, msiplat, platform, ret, dbg, calls, op,
          pc, lock, loc>>

(***************************************************************************)
(* Bounds and values.                                                      *)
(***************************************************************************)
\* msi.max_irqs of the MSI capable device.
MaxIrqs == 2
\* registered_handler_count is never reset by the code: the model stops
\* registering when the counter has reached this value.
MaxRegCount == 2

PCIE_MAX_MSI_IRQS == 32

NULL == "NULL"
Devs == {"d1", "d2"}
Insts == {"shA", "shB"}
Vecs == {17, 18}
Fns == {"H1", "H2"}
\* (callback, ctx) pairs a driver passes to register_handler.
Registrations == {<<NULL, "C1">>, <<"H1", "C1">>, <<"H2", "C2">>}
\* pcie_irq_handler_retval_t: a set of the bits MASK and RESCHED.
IrqRets == SUBSET {"MASK", "RESCHED"}
Modes == {"DISABLED", "LEGACY", "MSI", "MSI_X"}
\* Values of requested_irqs the drivers pass.
ReqIrqs == 0..(MaxIrqs + 1)
\* The 32 bits of the PVM mask register.
PvmBits == 0..(PCIE_MAX_MSI_IRQS - 1)

\* A zeroed pcie_irq_handler_state_t (calloc, memset).
ZeroSlot ==
    [dev |-> NULL, pci_irq_id |-> 0, handler |-> NULL, ctx |-> NULL, masked |-> FALSE]

\* A zeroed pcie_msi_block_t.
ZeroBlock ==
    [allocated |-> FALSE, num_irq |-> 0, tgt_addr |-> <<0, 0>>, tgt_data |-> 0]

\* The block the platform hands out: target address (upper, lower 32 bits) and data.
PlatformBlock(n, is64bit) ==
    [allocated |-> TRUE, num_irq |-> n,
     tgt_addr |-> <<IF is64bit THEN 1 ELSE 0, 4>>, tgt_data |-> 8]

(***************************************************************************)
(* The world the routines act on.                                          *)
(***************************************************************************)
World ==
    [dev |-> dev, sh |-> sh, legacy_irq_list |-> legacy_irq_list, vec |-> vec,
     msiplat |-> msiplat, platform |-> platform, ret |-> ret, dbg |-> 0,
     calls |-> <<>>, log |-> <<>>, out |-> NULL]

Commit(w) ==
    /\ dev' = w.dev
    /\ sh' = w.sh
    /\ legacy_irq_list' = w.legacy_irq_list
    /\ vec' = w.vec
    /\ msiplat' = w.msiplat
    /\ platform' = w.platform
    /\ ret' = w.ret
    /\ dbg' = w.dbg
    /\ calls' = w.calls

\* DEBUG_ASSERT(cond) at a source line: the first failure of an operation is kept.
DebugAssert(w, cond, line) ==
    IF cond \/ w.dbg # 0 THEN w ELSE [w EXCEPT !.dbg = line]

Return(w, status) == [w EXCEPT !.ret = status]

\* The operation's record of its effects on the hardware, the platform and the
\* bookkeeping, in the order it performs them: w.log, a sequence of <<effect, n>>.
Log(w, effect, n) == [w EXCEPT !.log = Append(@, <<effect, n>>)]

\* dev->irq.handlers[irq_id]; the sequence is indexed from 1.
Slot(w, d, irq_id) == w.dev[d].handlers[irq_id + 1]

SetSlot(w, d, irq_id, s) == [w EXCEPT !.dev[d].handlers[irq_id + 1] = s]

\* list_in_list(&dev->irq.legacy.shared_handler_node)
InList(w, d) == \E i \in Insts : \E k \in 1..Len(w.sh[i].list) : w.sh[i].list[k] = d

(***************************************************************************)
(* Platform primitives (the interrupt controller).                         *)
(***************************************************************************)
mask_interrupt(w, v) == [w EXCEPT !.vec[v].masked = TRUE]

unmask_interrupt(w, v) == [w EXCEPT !.vec[v].masked = FALSE]

register_int_handler(w, v, h) == [w EXCEPT !.vec[v].handler = h]

MaskUnmaskMsi(w, d, irq_id, mask) ==
    Log([w EXCEPT !.msiplat[d].masked =
            IF mask THEN @ \cup {irq_id} ELSE @ \ {irq_id}],
        IF mask THEN "platform_mask" ELSE "platform_unmask", irq_id)

RegisterMsiHandler(w, d, irq_id, registered) ==
    Log([w EXCEPT !.msiplat[d].handler =
            IF registered THEN @ \cup {irq_id} ELSE @ \ {irq_id}],
        IF registered THEN "register" ELSE "unregister", irq_id)

AllocMsiBlock(w, d, requested_irqs, ok) ==
    IF ok
    THEN Return(Log([w EXCEPT !.dev[d].block =
                        PlatformBlock(requested_irqs, w.dev[d].is64bit)],
                    "alloc_block", requested_irqs), "NO_ERROR")
    ELSE Return(w, "ERR_NO_RESOURCES")

FreeMsiBlock(w, d) ==
    Log([w EXCEPT !.dev[d].block = ZeroBlock,
                  !.msiplat[d] = [masked |-> {}, handler |-> {}]],
        "free_block", 0)

(***************************************************************************)
(* Helper routines common to all IRQ modes.                                *)
(***************************************************************************)
pcie_reset_common_irq_bookkeeping(w, d) ==
    LET w1 == DebugAssert(w, w.dev[d].handler_count <= 1
                             \/ w.dev[d].handlers_ptr # "singleton", 35)
    IN [w1 EXCEPT !.dev[d].mode = "DISABLED",
                  !.dev[d].handlers = <<>>,
                  !.dev[d].handlers_ptr = NULL,
                  !.dev[d].handler_count = 0]

\* Mutant: a table from the heap is counted as one slot.
pcie_alloc_irq_handlers_CountOne(w, d, requested_irqs, calloc_ok) ==
    LET table(n) == [i \in 1..n |->
                        [ZeroSlot EXCEPT !.dev = d, !.pci_irq_id = i - 1]]
    IN IF requested_irqs = 1
       THEN Return(Log([w EXCEPT !.dev[d].handlers = table(1),
                                 !.dev[d].handlers_ptr = "singleton",
                                 !.dev[d].handler_count = 1],
                       "alloc_table", 1), "NO_ERROR")
       ELSE IF ~calloc_ok
       THEN Return([w EXCEPT !.dev[d].handlers = <<>>,
                             !.dev[d].handlers_ptr = NULL], "ERR_NO_MEMORY")
       ELSE Return(Log([w EXCEPT !.dev[d].handlers = table(requested_irqs),
                                 !.dev[d].handlers_ptr = "heap",
                                 !.dev[d].handler_count = 1],
                       "alloc_table", requested_irqs), "NO_ERROR")

\* calloc_ok: whether calloc finds the memory for the table.
pcie_alloc_irq_handlers(w, d, requested_irqs, calloc_ok) ==
    LET w1 == DebugAssert(w, requested_irqs # 0, 48)
        w2 == DebugAssert(w1, w.dev[d].handlers_ptr = NULL, 49)
        w3 == DebugAssert(w2, w.dev[d].handler_count = 0, 50)
        table(n) == [i \in 1..n |->
                        [ZeroSlot EXCEPT !.dev = d, !.pci_irq_id = i - 1]]
    IN IF requested_irqs = 1
       THEN Return(Log([w3 EXCEPT !.dev[d].handlers = table(1),
                                  !.dev[d].handlers_ptr = "singleton",
                                  !.dev[d].handler_count = 1],
                       "alloc_table", 1), "NO_ERROR")
       ELSE IF ~calloc_ok
       THEN Return([w3 EXCEPT !.dev[d].handlers = <<>>,
                              !.dev[d].handlers_ptr = NULL], "ERR_NO_MEMORY")
       ELSE Return(Log([w3 EXCEPT !.dev[d].handlers = table(requested_irqs),
                                  !.dev[d].handlers_ptr = "heap",
                                  !.dev[d].handler_count = requested_irqs],
                       "alloc_table", requested_irqs), "NO_ERROR")

(***************************************************************************)
(* Config space accessors.  The command register is the set of its bits    *)
(* that are 1; the engine touches INT_DISABLE, other writers BUS_MASTER.   *)
(***************************************************************************)
ReadCommand(w, d) == w.dev[d].command

WriteCommand(w, d, val) == [w EXCEPT !.dev[d].command = val]

(***************************************************************************)
(* Legacy IRQ mode routines.                                               *)
(***************************************************************************)
\* SharedLegacyIrqHandler::SharedLegacyIrqHandler
SharedLegacyIrqHandler_ctor(w, i, irq_id) ==
    LET w1 == [w EXCEPT !.sh[i] = [live |-> TRUE, irq_id |-> irq_id, list |-> <<>>]]
        w2 == mask_interrupt(w1, irq_id)
    IN register_int_handler(w2, irq_id, i)

\* Mutant: irq_ret starts as 0 and a device that is not called is left unmasked.
HandlerServiceDevice_NoForce(w, d, asserting, irq_ret) ==
    LET command == ReadCommand(w, d)
        hstate == Slot(w, d, 0)
        invoke == hstate.handler # NULL /\ ~hstate.masked
        got == IF invoke THEN irq_ret ELSE {}
        w1 == IF invoke
              THEN [w EXCEPT !.calls = Append(@,
                        [dev |-> d, irq_id |-> 0, handler |-> hstate.handler,
                         ctx |-> hstate.ctx])]
              ELSE w
        w2 == IF hstate.handler # NULL /\ "RESCHED" \in got
              THEN Return(w1, "INT_RESCHEDULE")
              ELSE w1
        w3 == IF "MASK" \in got
              THEN WriteCommand(SetSlot(w2, d, 0, [hstate EXCEPT !.masked = TRUE]),
                                d, ReadCommand(w2, d) \cup {"INT_DISABLE"})
              ELSE w2
    IN IF asserting /\ "INT_DISABLE" \notin command
       THEN IF w.dev[d].handlers_ptr # NULL
            THEN w3
            ELSE WriteCommand(w, d, ReadCommand(w, d) \cup {"INT_DISABLE"})
       ELSE w

\* Mutant: need_resched is assigned by every callback instead of accumulated.
HandlerServiceDevice_ReschedAssigned(w, d, asserting, irq_ret) ==
    LET command == ReadCommand(w, d)
        hstate == Slot(w, d, 0)
        invoke == hstate.handler # NULL /\ ~hstate.masked
        got == IF invoke THEN irq_ret ELSE {"MASK"}
        w1 == IF invoke
              THEN [w EXCEPT !.calls = Append(@,
                        [dev |-> d, irq_id |-> 0, handler |-> hstate.handler,
                         ctx |-> hstate.ctx])]
              ELSE w
        w2 == IF invoke
              THEN Return(w1, IF "RESCHED" \in got
                              THEN "INT_RESCHEDULE" ELSE "INT_NO_RESCHEDULE")
              ELSE w1
        w3 == IF "MASK" \in got
              THEN WriteCommand(SetSlot(w2, d, 0, [hstate EXCEPT !.masked = TRUE]),
                                d, ReadCommand(w2, d) \cup {"INT_DISABLE"})
              ELSE w2
    IN IF asserting /\ "INT_DISABLE" \notin command
       THEN IF w.dev[d].handlers_ptr # NULL
            THEN w3
            ELSE WriteCommand(w, d, ReadCommand(w, d) \cup {"INT_DISABLE"})
       ELSE w

\* The dispatcher's service of one device of its list.  asserting: the device's
\* status.INT_STS as read; irq_ret: what the driver's callback returns if invoked.
\* need_resched is accumulated in ret.
HandlerServiceDevice(w, d, asserting, irq_ret) ==
    LET command == ReadCommand(w, d)
        hstate == Slot(w, d, 0)
        invoke == hstate.handler # NULL /\ ~hstate.masked
        got == IF invoke THEN irq_ret ELSE {"MASK"}
        w1 == IF invoke
              THEN [w EXCEPT !.calls = Append(@,
                        [dev |-> d, irq_id |-> 0, handler |-> hstate.handler,
                         ctx |-> hstate.ctx])]
              ELSE w
        w2 == IF hstate.handler # NULL /\ "RESCHED" \in got
              THEN Return(w1, "INT_RESCHEDULE")
              ELSE w1
        w3 == IF "MASK" \in got
              THEN WriteCommand(SetSlot(w2, d, 0, [hstate EXCEPT !.masked = TRUE]),
                                d, ReadCommand(w2, d) \cup {"INT_DISABLE"})
              ELSE w2
    IN IF asserting /\ "INT_DISABLE" \notin command
       THEN IF w.dev[d].handlers_ptr # NULL
            THEN w3
            ELSE WriteCommand(w, d, ReadCommand(w, d) \cup {"INT_DISABLE"})
       ELSE w

RECURSIVE HandlerPass(_, _, _, _)
HandlerPass(w, list, sts, hret) ==
    IF list = <<>>
    THEN w
    ELSE HandlerPass(HandlerServiceDevice(w, Head(list), Head(list) \in sts,
                                          hret[Head(list)]),
                     Tail(list), sts, hret)

\* Mutant: a dispatch over an empty list leaves the vector as it is.
SharedLegacyIrqHandler_Handler_NoSpuriousMask(w, i, sts, hret) ==
    HandlerPass(Return(w, "INT_NO_RESCHEDULE"), w.sh[i].list, sts, hret)

\* SharedLegacyIrqHandler::Handler.  sts: the devices whose status.INT_STS is set;
\* hret: what each device's callback returns if it is invoked.
SharedLegacyIrqHandler_Handler(w, i, sts, hret) ==
    IF w.sh[i].list = <<>>
    THEN Return(mask_interrupt(w, w.sh[i].irq_id), "INT_NO_RESCHEDULE")
    ELSE HandlerPass(Return(w, "INT_NO_RESCHEDULE"), w.sh[i].list, sts, hret)

\* SharedLegacyIrqHandler::AddDevice
AddDevice(w, i, d) ==
    LET w1 == DebugAssert(w, w.dev[d].shared_handler = i, 184)
        w2 == DebugAssert(w1, ~InList(w, d), 185)
        w3 == WriteCommand(w2, d, ReadCommand(w2, d) \cup {"INT_DISABLE"})
        first_device == w.sh[i].list = <<>>
        w4 == [w3 EXCEPT !.sh[i].list = Append(@, d)]
    IN IF first_device THEN unmask_interrupt(w4, w.sh[i].irq_id) ELSE w4

\* list_delete
ListDelete(list, d) == SelectSeq(list, LAMBDA e : e # d)

\* Mutant: the last device leaves and the vector stays unmasked.
RemoveDevice_NoMask(w, i, d) ==
    LET w3 == WriteCommand(w, d, ReadCommand(w, d) \cup {"INT_DISABLE"})
    IN [w3 EXCEPT !.sh[i].list = ListDelete(@, d)]

\* SharedLegacyIrqHandler::RemoveDevice
RemoveDevice(w, i, d) ==
    LET w1 == DebugAssert(w, w.dev[d].shared_handler = i, 205)
        w2 == DebugAssert(w1, InList(w, d), 206)
        w3 == WriteCommand(w2, d, ReadCommand(w2, d) \cup {"INT_DISABLE"})
        w4 == [w3 EXCEPT !.sh[i].list = ListDelete(@, d)]
    IN IF w4.sh[i].list = <<>> THEN mask_interrupt(w4, w.sh[i].irq_id) ELSE w4

\* Mutant: the command register is written and the slot's flag is set only.
pcie_mask_unmask_legacy_irq_FlagSetOnly(w, d, mask) ==
    IF w.dev[d].handlers_ptr = NULL \/ w.dev[d].handler_count = 0
    THEN Return(w, "ERR_INVALID_ARGS")
    ELSE LET val == ReadCommand(w, d)
             new == IF mask THEN val \cup {"INT_DISABLE"} ELSE val \ {"INT_DISABLE"}
             w1 == WriteCommand(w, d, new)
         IN Return(SetSlot(w1, d, 0,
                           [Slot(w1, d, 0) EXCEPT !.masked = @ \/ mask]),
                   "NO_ERROR")

pcie_mask_unmask_legacy_irq(w, d, mask) ==
    IF w.dev[d].handlers_ptr = NULL \/ w.dev[d].handler_count = 0
    THEN Return(w, "ERR_INVALID_ARGS")
    ELSE LET val == ReadCommand(w, d)
             new == IF mask THEN val \cup {"INT_DISABLE"} ELSE val \ {"INT_DISABLE"}
             w1 == WriteCommand(w, d, new)
         IN Return(SetSlot(w1, d, 0, [Slot(w1, d, 0) EXCEPT !.masked = mask]),
                   "NO_ERROR")

\* Mutant: the device is reset while still linked in the dispatcher's list.
pcie_leave_legacy_irq_mode_NoRemove(w, d) ==
    pcie_reset_common_irq_bookkeeping(pcie_mask_unmask_legacy_irq(w, d, TRUE), d)

pcie_leave_legacy_irq_mode(w, d) ==
    LET w1 == pcie_mask_unmask_legacy_irq(w, d, TRUE)
        w2 == RemoveDevice(w1, w.dev[d].shared_handler, d)
    IN pcie_reset_common_irq_bookkeeping(w2, d)

\* Mutant: a legacy device is given as many slots as were asked for.
pcie_enter_legacy_irq_mode_AnyCount(w, d, requested_irqs) ==
    IF w.dev[d].pin = 0
    THEN Return(w, "ERR_NOT_SUPPORTED")
    ELSE LET w1 == pcie_alloc_irq_handlers(w, d, requested_irqs, TRUE)
             w4 == [w1 EXCEPT !.dev[d].mode = "LEGACY"]
         IN Return(AddDevice(w4, w.dev[d].shared_handler, d), "NO_ERROR")

pcie_enter_legacy_irq_mode(w, d, requested_irqs) ==
    IF w.dev[d].pin = 0 \/ requested_irqs > 1
    THEN Return(w, "ERR_NOT_SUPPORTED")
    ELSE LET w1 == pcie_alloc_irq_handlers(w, d, requested_irqs, TRUE)
             w2 == DebugAssert(w1, w1.ret = "NO_ERROR", 262)
             w3 == DebugAssert(w2, w2.dev[d].handlers_ptr = "singleton", 263)
             w4 == [w3 EXCEPT !.dev[d].mode = "LEGACY"]
         IN Return(AddDevice(w4, w.dev[d].shared_handler, d), "NO_ERROR")

(***************************************************************************)
(* MSI IRQ mode routines.                                                  *)
(***************************************************************************)
\* PCIE_CAP_MSI_CTRL_SET_ENB on the control register
pcie_set_msi_enb(w, d, enb) ==
    LET w1 == DebugAssert(w, w.dev[d].msi_cfg, 278)
    IN Log([w1 EXCEPT !.dev[d].ctrl.enb = enb], "enable", IF enb THEN 1 ELSE 0)

\* The read-modify-write of the PVM mask register, in its two halves.
PvmModify(val, irq_id, mask) == IF mask THEN val \cup {irq_id} ELSE val \ {irq_id}

PvmWrite(w, d, val) == [w EXCEPT !.dev[d].pvm_reg = val]

\* The platform half and the bookkeeping half of pcie_mask_unmask_msi_irq_locked.
MsiMaskPlatformAndFlag(w, d, irq_id, mask) ==
    LET w1 == DebugAssert(w, w.dev[d].block.allocated, 311)
        w2 == DebugAssert(w1, irq_id < w.dev[d].block.num_irq, 312)
        w3 == IF w.platform.supports_msi_masking
              THEN MaskUnmaskMsi(w2, d, irq_id, mask)
              ELSE w2
    IN SetSlot(w3, d, irq_id, [Slot(w3, d, irq_id) EXCEPT !.masked = mask])

\* Returns (in the source) the slot's previous masked flag, which callers of the
\* model read from the world they pass.
pcie_mask_unmask_msi_irq_locked(w, d, irq_id, mask) ==
    LET w1 == DebugAssert(w, w.dev[d].mode = "MSI", 287)
        w2 == DebugAssert(w1, irq_id < w.dev[d].handler_count, 288)
        w3 == DebugAssert(w2, ~mask \/ w.platform.supports_msi_masking
                                    \/ w.dev[d].pvm, 296)
        w4 == IF w.dev[d].pvm
              THEN Log(PvmWrite(w3, d, PvmModify(w3.dev[d].pvm_reg, irq_id, mask)),
                       IF mask THEN "pvm_mask" ELSE "pvm_unmask", irq_id)
              ELSE w3
    IN MsiMaskPlatformAndFlag(w4, d, irq_id, mask)

\* Mutant: a mask request is carried out whether or not anything can mask.
pcie_mask_unmask_msi_irq_NoSupportCheck(w, d, irq_id, mask) ==
    IF irq_id >= w.dev[d].handler_count
    THEN Return(w, "ERR_INVALID_ARGS")
    ELSE Return(pcie_mask_unmask_msi_irq_locked(w, d, irq_id, mask), "NO_ERROR")

pcie_mask_unmask_msi_irq(w, d, irq_id, mask) ==
    IF irq_id >= w.dev[d].handler_count
    THEN Return(w, "ERR_INVALID_ARGS")
    ELSE IF mask /\ ~w.platform.supports_msi_masking /\ ~w.dev[d].pvm
    THEN Return(w, "ERR_NOT_SUPPORTED")
    ELSE Return(pcie_mask_unmask_msi_irq_locked(w, d, irq_id, mask), "NO_ERROR")

RECURSIVE MaskVectorsFrom(_, _, _)
MaskVectorsFrom(w, d, i) ==
    IF i >= w.dev[d].handler_count
    THEN w
    ELSE MaskVectorsFrom(pcie_mask_unmask_msi_irq(w, d, i, TRUE), d, i + 1)

pcie_mask_all_msi_vectors(w, d) ==
    LET w1 == DebugAssert(w, w.dev[d].msi_cfg, 347)
        w2 == [MaskVectorsFrom(w1, d, 0) EXCEPT !.ret = w.ret]
    IN IF w.dev[d].pvm THEN Log(PvmWrite(w2, d, PvmBits), "pvm_write_all", 0) ELSE w2

\* The writes of the address and data registers that end pcie_set_msi_target.
\* tgt_addr is <<upper 32 bits, lower 32 bits>>.
WriteMsiTarget(w, d, tgt_addr, tgt_data) ==
    LET w5 == Log([w EXCEPT !.dev[d].msi_addr = tgt_addr[2]], "addr_low", tgt_addr[2])
        w6 == Log([w5 EXCEPT !.dev[d].msi_addr_upper = tgt_addr[1]],
                  "addr_high", tgt_addr[1])
    IN IF w.dev[d].is64bit
       THEN Log([w6 EXCEPT !.dev[d].msi_data = tgt_data % 65536],
                "data", tgt_data % 65536)
       ELSE Log([w5 EXCEPT !.dev[d].msi_data = tgt_data % 65536],
                "data", tgt_data % 65536)

pcie_set_msi_target(w, d, tgt_addr, tgt_data) ==
    LET w1 == DebugAssert(w, w.dev[d].msi_cfg, 363)
        w2 == DebugAssert(w1, w.dev[d].is64bit \/ tgt_addr[1] = 0, 364)
        w3 == pcie_set_msi_enb(w2, d, FALSE)
    IN WriteMsiTarget(pcie_mask_all_msi_vectors(w3, d), d, tgt_addr, tgt_data)

\* Mutant: the vector is unmasked after every callback.
pcie_msi_irq_handler_AlwaysUnmask(w, d, irq_id, irq_ret) ==
    LET hstate == Slot(w, d, irq_id)
        can_mask == w.platform.supports_msi_masking \/ w.dev[d].pvm
        w1 == IF can_mask
              THEN pcie_mask_unmask_msi_irq_locked(w, d, hstate.pci_irq_id, TRUE)
              ELSE DebugAssert(w, ~hstate.masked, 399)
        was_masked == IF can_mask THEN hstate.masked ELSE FALSE
        w2 == Log([w1 EXCEPT !.calls = Append(@,
                       [dev |-> hstate.dev, irq_id |-> hstate.pci_irq_id,
                        handler |-> hstate.handler, ctx |-> hstate.ctx])],
                  "callback", hstate.pci_irq_id)
        w3 == IF TRUE
              THEN pcie_mask_unmask_msi_irq_locked(w2, d, hstate.pci_irq_id, FALSE)
              ELSE w2
    IN IF was_masked \/ hstate.handler = NULL
       THEN Return(w1, "INT_NO_RESCHEDULE")
       ELSE Return(w3, IF "RESCHED" \in irq_ret
                       THEN "INT_RESCHEDULE" ELSE "INT_NO_RESCHEDULE")

\* pcie_msi_irq_handler for slot irq_id of device d.  irq_ret: what the driver's
\* callback returns if it is invoked.
pcie_msi_irq_handler(w, d, irq_id, irq_ret) ==
    LET hstate == Slot(w, d, irq_id)
        can_mask == w.platform.supports_msi_masking \/ w.dev[d].pvm
        w1 == IF can_mask
              THEN pcie_mask_unmask_msi_irq_locked(w, d, hstate.pci_irq_id, TRUE)
              ELSE DebugAssert(w, ~hstate.masked, 399)
        was_masked == IF can_mask THEN hstate.masked ELSE FALSE
        w2 == Log([w1 EXCEPT !.calls = Append(@,
                       [dev |-> hstate.dev, irq_id |-> hstate.pci_irq_id,
                        handler |-> hstate.handler, ctx |-> hstate.ctx])],
                  "callback", hstate.pci_irq_id)
        w3 == IF "MASK" \notin irq_ret
              THEN pcie_mask_unmask_msi_irq_locked(w2, d, hstate.pci_irq_id, FALSE)
              ELSE w2
    IN IF was_masked \/ hstate.handler = NULL
       THEN Return(w1, "INT_NO_RESCHEDULE")
       ELSE Return(w3, IF "RESCHED" \in irq_ret
                       THEN "INT_RESCHEDULE" ELSE "INT_NO_RESCHEDULE")

RECURSIVE FreeVectorsFrom(_, _, _)
FreeVectorsFrom(w, d, i) ==
    IF i >= w.dev[d].block.num_irq
    THEN w
    ELSE LET w1 == IF w.platform.supports_msi_masking
                   THEN MaskUnmaskMsi(w, d, i, TRUE)
                   ELSE w
         IN FreeVectorsFrom(RegisterMsiHandler(w1, d, i, FALSE), d, i + 1)

\* Mutant: the handlers are unregistered and the block is kept.
pcie_free_msi_block_NoFree(w, d) ==
    IF ~w.dev[d].block.allocated THEN w ELSE FreeVectorsFrom(w, d, 0)

pcie_free_msi_block(w, d) ==
    IF ~w.dev[d].block.allocated
    THEN w
    ELSE LET w1 == DebugAssert(w, w.platform.supports_msi, 427)
             w2 == FreeMsiBlock(FreeVectorsFrom(w1, d, 0), d)
         IN DebugAssert(w2, ~w2.dev[d].block.allocated, 440)

\* log2_uint_ceil of pow2.h: the least k with 2^k >= n.
RECURSIVE Log2Ceil(_, _)
Log2Ceil(n, k) == IF 2^k >= n THEN k ELSE Log2Ceil(n, k + 1)

log2_uint_ceil(n) == Log2Ceil(n, 0)

\* pcie_read16(ctrl_reg): ENABLE is bit 0, MMC bits 1..3 (the advertised maximum,
\* as a power of two), MME bits 4..6, 64BIT bit 7 and PVM bit 8.
CtrlRead(w, d) ==
    (IF w.dev[d].ctrl.enb THEN 1 ELSE 0)
    + 2 * log2_uint_ceil(w.dev[d].max_irqs)
    + 16 * w.dev[d].ctrl.mme
    + (IF w.dev[d].is64bit THEN 128 ELSE 0)
    + (IF w.dev[d].pvm THEN 256 ELSE 0)

\* The MME field of a value of the control register.
CtrlMme(reg) == (reg \div 16) % 8

\* PCIE_CAP_MSI_CTRL_SET_MME(val, reg): reg with bits 4..6 replaced by val.
PCIE_CAP_MSI_CTRL_SET_MME(val, reg) == (reg - 16 * CtrlMme(reg)) + 16 * (val % 8)

\* Mutant: the field is written with requested_irqs - 1.
pcie_set_msi_multi_message_enb_CountMinusOne(w, d, requested_irqs) ==
    LET reg == PCIE_CAP_MSI_CTRL_SET_MME(requested_irqs - 1, CtrlRead(w, d))
    IN Log([w EXCEPT !.dev[d].ctrl.mme = CtrlMme(reg)], "mme", requested_irqs - 1)

pcie_set_msi_multi_message_enb(w, d, requested_irqs) ==
    LET log2 == log2_uint_ceil(requested_irqs)
        w1 == DebugAssert(w, w.dev[d].msi_cfg, 446)
        w2 == DebugAssert(w1, requested_irqs >= 1
                              /\ requested_irqs <= PCIE_MAX_MSI_IRQS, 447)
        w3 == DebugAssert(w2, log2 <= 5, 451)
        w4 == DebugAssert(w3, log2 = 0 \/ 2^(log2 - 1) < requested_irqs, 452)
        w5 == DebugAssert(w4, 2^log2 >= requested_irqs, 453)
        reg == PCIE_CAP_MSI_CTRL_SET_MME(log2, CtrlRead(w5, d))
    IN Log([w5 EXCEPT !.dev[d].ctrl.mme = CtrlMme(reg)], "mme", log2)

\* Mutant: the MSI registers are left as they are.
pcie_leave_msi_irq_mode_NoTarget(w, d) ==
    pcie_reset_common_irq_bookkeeping(pcie_free_msi_block(w, d), d)

pcie_leave_msi_irq_mode(w, d) ==
    LET w1 == pcie_set_msi_target(w, d, <<0, 0>>, 0)
        w2 == pcie_free_msi_block(w1, d)
    IN pcie_reset_common_irq_bookkeeping(w2, d)

RECURSIVE RegisterVectorsFrom(_, _, _)
RegisterVectorsFrom(w, d, i) ==
    IF i >= w.dev[d].handler_count
    THEN w
    ELSE RegisterVectorsFrom(RegisterMsiHandler(w, d, i, TRUE), d, i + 1)

\* Mutant: MSI is enabled before the dispatcher is registered for the vectors.
pcie_enter_msi_irq_mode_EnableFirst(w, d, requested_irqs, alloc_ok, calloc_ok) ==
    IF ~w.dev[d].msi_cfg \/ ~w.platform.supports_msi
       \/ requested_irqs > w.dev[d].max_irqs
    THEN Return(w, "ERR_NOT_SUPPORTED")
    ELSE LET w1 == AllocMsiBlock(w, d, requested_irqs, alloc_ok)
             w2 == pcie_alloc_irq_handlers(w1, d, requested_irqs, calloc_ok)
             w3 == Log([w2 EXCEPT !.dev[d].mode = "MSI"], "mode_msi", 0)
             w5 == pcie_set_msi_target(w3, d, w3.dev[d].block.tgt_addr,
                                       w3.dev[d].block.tgt_data)
             w6 == pcie_set_msi_multi_message_enb(w5, d, requested_irqs)
             w8 == pcie_set_msi_enb(w6, d, TRUE)
             w9 == RegisterVectorsFrom(w8, d, 0)
         IN IF w1.ret # "NO_ERROR"
            THEN Return(pcie_leave_msi_irq_mode(w1, d), w1.ret)
            ELSE IF w2.ret # "NO_ERROR"
            THEN Return(pcie_leave_msi_irq_mode(w2, d), w2.ret)
            ELSE Return(w9, "NO_ERROR")

\* alloc_ok: whether the platform grants the block; calloc_ok: whether the handler
\* table can be allocated.
pcie_enter_msi_irq_mode(w, d, requested_irqs, alloc_ok, calloc_ok) ==
    IF ~w.dev[d].msi_cfg \/ ~w.platform.supports_msi
       \/ requested_irqs > w.dev[d].max_irqs
    THEN Return(w, "ERR_NOT_SUPPORTED")
    ELSE LET w0 == DebugAssert(w, ~w.dev[d].block.allocated, 490)
             w1 == AllocMsiBlock(w0, d, requested_irqs, alloc_ok)
             w2 == pcie_alloc_irq_handlers(w1, d, requested_irqs, calloc_ok)
             w3 == Log([w2 EXCEPT !.dev[d].mode = "MSI"], "mode_msi", 0)
             w4 == DebugAssert(w3, w3.dev[d].block.allocated, 517)
             w5 == pcie_set_msi_target(w4, d, w4.dev[d].block.tgt_addr,
                                       w4.dev[d].block.tgt_data)
             w6 == pcie_set_msi_multi_message_enb(w5, d, requested_irqs)
             w7 == DebugAssert(w6, w6.dev[d].handler_count
                                       <= w6.dev[d].block.num_irq, 526)
             w8 == RegisterVectorsFrom(w7, d, 0)
             w9 == pcie_set_msi_enb(w8, d, TRUE)
         IN IF w1.ret # "NO_ERROR"
            THEN Return(pcie_leave_msi_irq_mode(w1, d), w1.ret)
            ELSE IF w2.ret # "NO_ERROR"
            THEN Return(pcie_leave_msi_irq_mode(w2, d), w2.ret)
            ELSE Return(w9, "NO_ERROR")

(***************************************************************************)
(* Internal implementation of the kernel facing API.                       *)
(***************************************************************************)
\* Mutant: disabling resets the bookkeeping and leaves the mode's resources.
DisableIrqMode_ResetOnly(w0, d) ==
    IF w0.dev[d].mode = "DISABLED"
    THEN Return(w0, "NO_ERROR")
    ELSE Return(pcie_reset_common_irq_bookkeeping(w0, d), "NO_ERROR")

\* pcie_set_irq_mode_internal, the branch that disables IRQs.
DisableIrqMode(w0, d) ==
    LET cur == w0.dev[d].mode
    IN IF cur = "DISABLED"
       THEN LET w1 == DebugAssert(w0, w0.dev[d].handlers_ptr = NULL, 626)
                w2 == DebugAssert(w1, w0.dev[d].handler_count = 0, 627)
            IN Return(w2, "NO_ERROR")
       ELSE LET w1 == DebugAssert(w0, w0.dev[d].handlers_ptr # NULL, 631)
                w2 == DebugAssert(w1, w0.dev[d].handler_count # 0, 632)
            IN CASE cur = "LEGACY" ->
                    LET w3 == DebugAssert(w2, InList(w0, d), 636)
                        w4 == pcie_leave_legacy_irq_mode(w3, d)
                        w5 == DebugAssert(w4,
                                w4.dev[d].registered_handler_count = 0, 640)
                    IN Return(w5, "NO_ERROR")
                 [] cur = "MSI" ->
                    LET w3 == DebugAssert(w2, w0.dev[d].msi_cfg, 644)
                        w4 == DebugAssert(w3, w0.dev[d].block.allocated, 645)
                        w5 == pcie_leave_msi_irq_mode(w4, d)
                        w6 == DebugAssert(w5,
                                w5.dev[d].registered_handler_count = 0, 649)
                    IN Return(w6, "NO_ERROR")
                 [] cur = "MSI_X" ->
                    Return(DebugAssert(w2, FALSE, 654), "ERR_NOT_SUPPORTED")
                 [] OTHER ->
                    Return(DebugAssert(w2, FALSE, 659), "ERR_INTERNAL")

\* Mutant: an active mode is entered from any mode.
SelectActiveMode_NoStateCheck(w0, d, mode, requested_irqs, alloc_ok, calloc_ok) ==
    IF requested_irqs < 1
    THEN Return(w0, "ERR_INVALID_ARGS")
    ELSE CASE mode = "LEGACY" -> pcie_enter_legacy_irq_mode(w0, d, requested_irqs)
           [] mode = "MSI" ->
              pcie_enter_msi_irq_mode(w0, d, requested_irqs, alloc_ok, calloc_ok)
           [] mode = "MSI_X" -> Return(w0, "ERR_NOT_SUPPORTED")
           [] OTHER -> Return(w0, "ERR_INVALID_ARGS")

\* Mutant: MSI_X is answered before the arguments and the mode are looked at.
SelectActiveMode_MsiXFirst(w0, d, mode, requested_irqs, alloc_ok, calloc_ok) ==
    IF mode = "MSI_X"
    THEN Return(w0, "ERR_NOT_SUPPORTED")
    ELSE IF requested_irqs < 1
    THEN Return(w0, "ERR_INVALID_ARGS")
    ELSE IF w0.dev[d].mode # "DISABLED"
    THEN Return(w0, "ERR_BAD_STATE")
    ELSE CASE mode = "LEGACY" -> pcie_enter_legacy_irq_mode(w0, d, requested_irqs)
           [] mode = "MSI" ->
              pcie_enter_msi_irq_mode(w0, d, requested_irqs, alloc_ok, calloc_ok)
           [] OTHER -> Return(w0, "ERR_INVALID_ARGS")

\* pcie_set_irq_mode_internal, the branch that picks an active mode.
SelectActiveMode(w0, d, mode, requested_irqs, alloc_ok, calloc_ok) ==
    IF requested_irqs < 1
    THEN Return(w0, "ERR_INVALID_ARGS")
    ELSE IF w0.dev[d].mode # "DISABLED"
    THEN Return(w0, "ERR_BAD_STATE")
    ELSE CASE mode = "LEGACY" -> pcie_enter_legacy_irq_mode(w0, d, requested_irqs)
           [] mode = "MSI" ->
              pcie_enter_msi_irq_mode(w0, d, requested_irqs, alloc_ok, calloc_ok)
           [] mode = "MSI_X" -> Return(w0, "ERR_NOT_SUPPORTED")
           [] OTHER -> Return(w0, "ERR_INVALID_ARGS")

pcie_set_irq_mode_internal(w, d, mode, requested_irqs, alloc_ok, calloc_ok) ==
    LET w0 == DebugAssert(w, w.dev[d].plugged_in, 619)
    IN IF mode = "DISABLED"
       THEN DisableIrqMode(w0, d)
       ELSE SelectActiveMode(w0, d, mode, requested_irqs, alloc_ok, calloc_ok)

\* Mutant: every registration of a callback is counted.
RegisteredCountAfter_CountsReplace(count, old_handler, handler) ==
    IF handler # NULL
    THEN count + 1
    ELSE IF old_handler # NULL THEN count - 1 ELSE count

\* The update of registered_handler_count in pcie_register_irq_handler_internal.
RegisteredCountAfter(count, old_handler, handler) ==
    IF old_handler # NULL
    THEN IF handler = NULL THEN count - 1 ELSE count
    ELSE IF handler # NULL THEN count + 1 ELSE count

\* pcie_register_irq_handler_internal up to the slot's lock: the assertions and
\* the bookkeeping of a request for a slot of the table of a device in a mode.
RegisterBookkeeping(w, d, irq_id, handler) ==
    LET hstate == Slot(w, d, irq_id)
        w0 == DebugAssert(w, w.dev[d].plugged_in, 685)
        w0a == DebugAssert(DebugAssert(w0, w.dev[d].handlers_ptr # NULL, 692),
                           w.dev[d].handler_count # 0, 693)
        w1 == DebugAssert(w0a, hstate.handler = NULL
                              \/ w.dev[d].registered_handler_count # 0, 704)
        w2 == [w1 EXCEPT !.dev[d].registered_handler_count =
                  RegisteredCountAfter(@, hstate.handler, handler)]
    IN DebugAssert(w2, w2.dev[d].registered_handler_count
                          <= w2.dev[d].handler_count, 711)

\* hstate->handler = handler
StoreHandler(w, d, irq_id, handler) ==
    SetSlot(w, d, irq_id, [Slot(w, d, irq_id) EXCEPT !.handler = handler])

\* hstate->ctx = handler ? ctx : NULL
StoreCtx(w, d, irq_id, handler, ctx) ==
    SetSlot(w, d, irq_id,
            [Slot(w, d, irq_id) EXCEPT !.ctx = IF handler # NULL THEN ctx ELSE NULL])

pcie_register_irq_handler_internal(w, d, irq_id, handler, ctx) ==
    LET w0 == DebugAssert(w, w.dev[d].plugged_in, 685)
    IN IF w.dev[d].mode = "DISABLED"
       THEN Return(w0, "ERR_BAD_STATE")
       ELSE IF irq_id >= w.dev[d].handler_count
       THEN Return(DebugAssert(DebugAssert(w0, w.dev[d].handlers_ptr # NULL, 692),
                               w.dev[d].handler_count # 0, 693), "ERR_INVALID_ARGS")
       ELSE Return(StoreCtx(StoreHandler(RegisterBookkeeping(w, d, irq_id, handler),
                                         d, irq_id, handler),
                            d, irq_id, handler, ctx), "NO_ERROR")

\* Mutant: the range of irq_id is checked in MSI mode only; a legacy device has
\* one slot and the request is taken to mean it.
pcie_mask_unmask_irq_internal_NoRangeCheck(w, d, irq_id, mask) ==
    LET w0 == DebugAssert(w, w.dev[d].plugged_in, 725)
        cur == w.dev[d].mode
    IN IF cur = "DISABLED"
       THEN Return(w0, "ERR_BAD_STATE")
       ELSE IF cur # "LEGACY" /\ irq_id >= w.dev[d].handler_count
       THEN Return(w0, "ERR_INVALID_ARGS")
       ELSE IF ~mask /\ Slot(w, d, IF cur = "LEGACY" THEN 0 ELSE irq_id).handler = NULL
       THEN Return(w0, "ERR_BAD_STATE")
       ELSE CASE cur = "LEGACY" -> pcie_mask_unmask_legacy_irq(w0, d, mask)
              [] cur = "MSI" -> pcie_mask_unmask_msi_irq(w0, d, irq_id, mask)
              [] OTHER -> Return(w0, "ERR_NOT_SUPPORTED")

\* Mutant: a slot without a callback may be unmasked.
pcie_mask_unmask_irq_internal_NoHandlerCheck(w, d, irq_id, mask) ==
    LET w0 == DebugAssert(w, w.dev[d].plugged_in, 725)
        cur == w.dev[d].mode
    IN IF cur = "DISABLED"
       THEN Return(w0, "ERR_BAD_STATE")
       ELSE IF irq_id >= w.dev[d].handler_count
       THEN Return(w0, "ERR_INVALID_ARGS")
       ELSE CASE cur = "LEGACY" -> pcie_mask_unmask_legacy_irq(w0, d, mask)
              [] cur = "MSI" -> pcie_mask_unmask_msi_irq(w0, d, irq_id, mask)
              [] OTHER -> Return(w0, "ERR_NOT_SUPPORTED")

pcie_mask_unmask_irq_internal(w, d, irq_id, mask) ==
    LET w0 == DebugAssert(w, w.dev[d].plugged_in, 725)
        cur == w.dev[d].mode
    IN IF cur = "DISABLED"
       THEN Return(w0, "ERR_BAD_STATE")
       ELSE LET w1 == DebugAssert(DebugAssert(w0, w.dev[d].handlers_ptr # NULL, 732),
                                  w.dev[d].handler_count # 0, 733)
            IN IF irq_id >= w.dev[d].handler_count
               THEN Return(w1, "ERR_INVALID_ARGS")
               ELSE IF ~mask /\ Slot(w, d, irq_id).handler = NULL
               THEN Return(w1, "ERR_BAD_STATE")
               ELSE CASE cur = "LEGACY" -> pcie_mask_unmask_legacy_irq(w1, d, mask)
                      [] cur = "MSI" -> pcie_mask_unmask_msi_irq(w1, d, irq_id, mask)
                      [] cur = "MSI_X" -> Return(w1, "ERR_NOT_SUPPORTED")
                      [] OTHER -> Return(DebugAssert(w1, FALSE, 752), "ERR_INTERNAL")

\* memset(out_caps, 0, sizeof(*out_caps))
ZeroCaps == [max_irqs |-> 0, per_vector_masking_supported |-> FALSE]

\* Mutant: per-vector masking is reported from the PVM register alone.
pcie_query_irq_mode_capabilities_internal_PvmOnly(w, d, mode) ==
    LET w0 == [DebugAssert(w, w.dev[d].plugged_in, 552) EXCEPT !.out = ZeroCaps]
    IN CASE mode = "LEGACY" ->
              IF w.dev[d].pin = 0
              THEN Return(w0, "ERR_NOT_SUPPORTED")
              ELSE Return([w0 EXCEPT !.out = [max_irqs |-> 1,
                                              per_vector_masking_supported |-> TRUE]],
                          "NO_ERROR")
         [] mode = "MSI" ->
              IF ~w.platform.supports_msi \/ ~w.dev[d].msi_cfg
              THEN Return(w0, "ERR_NOT_SUPPORTED")
              ELSE Return([w0 EXCEPT !.out =
                              [max_irqs |-> w.dev[d].max_irqs,
                               per_vector_masking_supported |-> w.dev[d].pvm]],
                          "NO_ERROR")
         [] mode = "MSI_X" -> Return(w0, "ERR_NOT_SUPPORTED")
         [] OTHER -> Return(w0, "ERR_INVALID_ARGS")

\* The capabilities are left in out.
pcie_query_irq_mode_capabilities_internal(w, d, mode) ==
    LET w0 == [DebugAssert(w, w.dev[d].plugged_in, 552) EXCEPT !.out = ZeroCaps]
    IN CASE mode = "LEGACY" ->
              IF w.dev[d].pin = 0
              THEN Return(w0, "ERR_NOT_SUPPORTED")
              ELSE Return([w0 EXCEPT !.out = [max_irqs |-> 1,
                                              per_vector_masking_supported |-> TRUE]],
                          "NO_ERROR")
         [] mode = "MSI" ->
              IF ~w.platform.supports_msi \/ ~w.dev[d].msi_cfg
              THEN Return(w0, "ERR_NOT_SUPPORTED")
              ELSE Return([w0 EXCEPT !.out =
                              [max_irqs |-> w.dev[d].max_irqs,
                               per_vector_masking_supported |->
                                   w.dev[d].pvm \/ w.platform.supports_msi_masking]],
                          "NO_ERROR")
         [] mode = "MSI_X" -> Return(w0, "ERR_NOT_SUPPORTED")
         [] OTHER -> Return(w0, "ERR_INVALID_ARGS")

\* The mode information is left in out.
pcie_get_irq_mode_internal(w, d) ==
    LET w0 == DebugAssert(w, w.dev[d].plugged_in, 605)
    IN Return([w0 EXCEPT !.out =
                  [mode |-> w.dev[d].mode,
                   max_handlers |-> w.dev[d].handler_count,
                   registered_handlers |-> w.dev[d].registered_handler_count]],
              "NO_ERROR")

(***************************************************************************)
(* Kernel API: the public operations, which take dev_lock and check that   *)
(* the device is plugged in and not disabled.                              *)
(***************************************************************************)
Usable(w, d) == w.dev[d].plugged_in /\ ~w.dev[d].disabled

\* has_out: out_caps is not a null pointer.
pcie_query_irq_mode_capabilities(w, d, mode, has_out) ==
    IF ~has_out
    THEN Return(w, "ERR_INVALID_ARGS")
    ELSE IF Usable(w, d)
    THEN pcie_query_irq_mode_capabilities_internal(w, d, mode)
    ELSE Return(w, "ERR_BAD_STATE")

\* has_out: out_info is not a null pointer.
pcie_get_irq_mode(w, d, has_out) ==
    IF ~has_out
    THEN Return(w, "ERR_INVALID_ARGS")
    ELSE IF Usable(w, d)
    THEN pcie_get_irq_mode_internal(w, d)
    ELSE Return(w, "ERR_BAD_STATE")

pcie_set_irq_mode(w, d, mode, requested_irqs, alloc_ok, calloc_ok) ==
    IF mode = "DISABLED" \/ Usable(w, d)
    THEN pcie_set_irq_mode_internal(w, d, mode, requested_irqs, alloc_ok, calloc_ok)
    ELSE Return(w, "ERR_BAD_STATE")

\* Mutant: the wrapper checks plugged_in only.
pcie_register_irq_handler_PluggedOnly(w, d, irq_id, handler, ctx) ==
    IF w.dev[d].plugged_in
    THEN pcie_register_irq_handler_internal(w, d, irq_id, handler, ctx)
    ELSE Return(w, "ERR_BAD_STATE")

pcie_register_irq_handler(w, d, irq_id, handler, ctx) ==
    IF Usable(w, d)
    THEN pcie_register_irq_handler_internal(w, d, irq_id, handler, ctx)
    ELSE Return(w, "ERR_BAD_STATE")

pcie_mask_unmask_irq(w, d, irq_id, mask) ==
    IF mask \/ Usable(w, d)
    THEN pcie_mask_unmask_irq_internal(w, d, irq_id, mask)
    ELSE Return(w, "ERR_BAD_STATE")

(***************************************************************************)
(* The initial states: the bus has been scanned, every device's IRQ state  *)
(* has been initialised (pcie_init_device_irq_state has returned NO_ERROR) *)
(* and no driver has selected a mode yet.  Two systems are examined:       *)
(*   - two legacy-only devices, d1 on pin INTA and d2 on pin INTB, routed  *)
(*     to the same system vector (one shared handler) or to two vectors;   *)
(*   - an MSI capable device d1 (pin INTA; with a PVM mask register and    *)
(*     64 bit addressing, or with neither) beside a device d2 with no      *)
(*     interrupt pin and no MSI capability, on a platform with or without  *)
(*     MSI and MSI masking.                                                *)
(***************************************************************************)
InitDevice(pin, shared, msi_cfg, pvm, is64bit) ==
    [mode |-> "DISABLED", handlers |-> <<>>, handlers_ptr |-> NULL,
     handler_count |-> 0, registered_handler_count |-> 0,
     pin |-> pin, shared_handler |-> shared,
     msi_cfg |-> msi_cfg, pvm |-> pvm, is64bit |-> is64bit,
     max_irqs |-> IF msi_cfg THEN MaxIrqs ELSE 0,
     block |-> ZeroBlock,
     command |-> {"INT_DISABLE"},
     ctrl |-> [enb |-> FALSE, mme |-> 0],
     pvm_reg |-> {}, msi_addr |-> 0, msi_addr_upper |-> 0, msi_data |-> 0,
     plugged_in |-> TRUE, disabled |-> FALSE]

DeadInst == [live |-> FALSE, irq_id |-> 0, list |-> <<>>]

LiveInst(irq_id) == [live |-> TRUE, irq_id |-> irq_id, list |-> <<>>]

Platforms ==
    {p \in [supports_msi : BOOLEAN, supports_msi_masking : BOOLEAN] :
        p.supports_msi_masking => p.supports_msi}

NoOp == [name |-> "init", d |-> NULL, inst |-> NULL]

\* System 1: d2 is routed to the instance d2sh.
InitLegacySystem(d2sh) ==
    /\ dev = [d \in Devs |->
                IF d = "d1"
                THEN InitDevice(1, "shA", FALSE, FALSE, FALSE)
                ELSE InitDevice(2, d2sh, FALSE, FALSE, FALSE)]
    /\ sh = [i \in Insts |->
                IF i = "shA" THEN LiveInst(17)
                ELSE IF d2sh = "shB" THEN LiveInst(18) ELSE DeadInst]
    /\ legacy_irq_list = IF d2sh = "shB" THEN <<"shB", "shA">> ELSE <<"shA">>
    /\ vec = [v \in Vecs |->
                [masked |-> TRUE,
                 handler |-> IF v = 17 THEN "shA"
                             ELSE IF d2sh = "shB" THEN "shB" ELSE NULL]]
    /\ platform = [supports_msi |-> TRUE, supports_msi_masking |-> TRUE]

\* System 2.
InitMsiSystem(pvm, p) ==
    /\ dev = [d \in Devs |->
                IF d = "d1"
                THEN InitDevice(1, "shA", TRUE, pvm, pvm)
                ELSE InitDevice(0, NULL, FALSE, FALSE, FALSE)]
    /\ sh = [i \in Insts |-> IF i = "shA" THEN LiveInst(17) ELSE DeadInst]
    /\ legacy_irq_list = <<"shA">>
    /\ vec = [v \in Vecs |->
                [masked |-> TRUE, handler |-> IF v = 17 THEN "shA" ELSE NULL]]
    /\ platform = p

\* The threads of the concurrent specifications and the locks they take.
Threads == {"ctl", "irq", "msi0", "msi1", "bus", "scan", "stop"}
\* A second core for the system vector of the shared legacy handler and one for
\* vector 0 of the device's MSI block: the same interrupt taken by two cores.
SecondCores == {"irq2", "msi2"}
Locks ==
    {"dev_lock", "list_lock", "slot0", "slot1", "cmd_reg_lock", "dev_lock2",
     "legacy_irq_list_lock"}
NoLocals ==
    [val |-> {}, k |-> 0, mask |-> FALSE, caller |-> NULL, dev |-> NULL,
     handler |-> NULL, ctx |-> NULL]

\* No operation has started.
Quiescent ==
    /\ msiplat = [d \in Devs |-> [masked |-> {}, handler |-> {}]]
    /\ ret = "NO_ERROR"
    /\ dbg = 0
    /\ calls = <<>>
    /\ op = NoOp
    /\ pc = [t \in Threads \cup SecondCores |-> "idle"]
    /\ lock = [l \in Locks |-> NULL]
    /\ loc = [t \in Threads \cup SecondCores |-> NoLocals]

Init ==
    /\ \/ \E d2sh \in Insts : InitLegacySystem(d2sh)
       \/ \E pvm \in BOOLEAN, p \in Platforms : InitMsiSystem(pvm, p)
    /\ Quiescent

(***************************************************************************)
(* Actions: one per public operation and dispatch.                         *)
(***************************************************************************)
SetMode(d, mode, n, alloc_ok, calloc_ok) ==
    /\ Commit(pcie_set_irq_mode(World, d, mode, n, alloc_ok, calloc_ok))
    /\ op' = [NoOp EXCEPT !.name = "set_mode", !.d = d]
    /\ UNCHANGED <<pc, lock, loc>>

\* The inputs that decide nothing are kept at one value.
SetModeInputs(d, mode, n, alloc_ok, calloc_ok) ==
    /\ (mode = "DISABLED") => n = 0
    /\ (mode # "DISABLED" /\ n = 0) => mode = "LEGACY"
    /\ (mode # "DISABLED" /\ dev[d].mode # "DISABLED") => mode = "LEGACY" /\ n <= 1
    /\ (mode = "MSI_X") => n <= 1
    /\ (mode = "LEGACY") => n <= 2
    /\ (mode = "MSI") => n <= dev[d].max_irqs + 1
    /\ (mode # "MSI" \/ dev[d].mode # "DISABLED" \/ ~Usable(World, d)
        \/ n = 0 \/ n > dev[d].max_irqs \/ ~platform.supports_msi)
          => alloc_ok /\ calloc_ok
    /\ ~alloc_ok => calloc_ok
    /\ n = 1 => calloc_ok

\* A request for a slot the table does not have is kept at one irq_id and one
\* callback: it is refused whatever they are.
RegisterInputs(d, irq_id, handler, ctx) ==
    irq_id >= dev[d].handler_count
        => irq_id = dev[d].handler_count /\ handler = NULL

RegisterHandler(d, irq_id, handler, ctx) ==
    /\ RegisterInputs(d, irq_id, handler, ctx)
    /\ RegisteredCountAfter(dev[d].registered_handler_count, NULL, handler)
          <= MaxRegCount
    /\ Commit(pcie_register_irq_handler(World, d, irq_id, handler, ctx))
    /\ op' = [NoOp EXCEPT !.name = "register_handler", !.d = d]
    /\ UNCHANGED <<pc, lock, loc>>

\* A request to a usable device for a slot the table does not have is refused
\* whether it masks or unmasks: it is kept at one irq_id and at mask.
MaskUnmask(d, irq_id, mask) ==
    /\ irq_id <= dev[d].handler_count
    /\ (irq_id = dev[d].handler_count /\ Usable(World, d)) => mask
    /\ Commit(pcie_mask_unmask_irq(World, d, irq_id, mask))
    /\ op' = [NoOp EXCEPT !.name = "mask_unmask", !.d = d]
    /\ UNCHANGED <<pc, lock, loc>>

\* Device d is on the list of dispatcher i.
ListedBy(i, d) == \E k \in 1..Len(sh[i].list) : sh[i].list[k] = d

\* The devices a dispatch pass of instance i would call the driver of.
WouldInvoke(i, sts) ==
    {d \in Devs : /\ InList(World, d) /\ dev[d].shared_handler = i
                  /\ d \in sts
                  /\ "INT_DISABLE" \notin dev[d].command
                  /\ dev[d].handlers_ptr # NULL
                  /\ dev[d].handlers[1].handler # NULL
                  /\ ~dev[d].handlers[1].masked}

\* What the callbacks return in a pass of instance i: a callback that is not
\* invoked returns nothing.
CallbackReturns(i, sts) ==
    LET invoked == WouldInvoke(i, sts)
    IN {h \in [Devs -> IrqRets] : \A d \in Devs \ invoked : h[d] = {}}

\* The platform takes system vector sh[i].irq_id and calls the handler registered
\* for it.  sts: the devices that assert their pin.
LegacyIrq(i, sts, hret) ==
    /\ sh[i].live
    /\ vec[sh[i].irq_id].handler = i
    /\ \A d \in sts : ListedBy(i, d)
    /\ hret \in CallbackReturns(i, sts)
    /\ Commit(SharedLegacyIrqHandler_Handler(World, i, sts, hret))
    /\ op' = [NoOp EXCEPT !.name = "legacy_irq", !.inst = i]
    /\ UNCHANGED <<pc, lock, loc>>

\* The platform takes vector irq_id of the block of device d.
MsiIrq(d, irq_id, irq_ret) ==
    /\ irq_id \in msiplat[d].handler
    /\ (dev[d].handlers[irq_id + 1].handler = NULL
        \/ ((platform.supports_msi_masking \/ dev[d].pvm)
            /\ dev[d].handlers[irq_id + 1].masked)) => irq_ret = {}
    /\ Commit(pcie_msi_irq_handler(World, d, irq_id, irq_ret))
    /\ op' = [NoOp EXCEPT !.name = "msi_irq", !.d = d]
    /\ UNCHANGED <<pc, lock, loc>>

Next ==
    \/ \E d \in Devs, mode \in Modes, n \in ReqIrqs, a \in BOOLEAN, c \in BOOLEAN :
          SetModeInputs(d, mode, n, a, c) /\ SetMode(d, mode, n, a, c)
    \/ \E d \in Devs, irq_id \in 0..MaxIrqs, r \in Registrations :
          RegisterHandler(d, irq_id, r[1], r[2])
    \/ \E d \in Devs, irq_id \in 0..MaxIrqs, mask \in BOOLEAN :
          MaskUnmask(d, irq_id, mask)
    \/ \E i \in Insts : \E sts \in SUBSET {d \in Devs : ListedBy(i, d)} :
          \E hret \in CallbackReturns(i, sts) : LegacyIrq(i, sts, hret)
    \/ \E d \in Devs, irq_id \in 0..(MaxIrqs - 1), irq_ret \in IrqRets :
          MsiIrq(d, irq_id, irq_ret)

Spec == Init /\ [][Next]_vars

(***************************************************************************)
(* The concurrent specifications.                                          *)
(*                                                                         *)
(* Thread "ctl" is a driver thread that calls the kernel API for device    *)
(* TheDev; "irq" is a core that has taken the system vector of the shared  *)
(* legacy handler TheInst; "msi0" and "msi1" are cores that have taken     *)
(* vectors 0 and 1 of the device's MSI block; "bus" is another writer of   *)
(* the device's command register (pcie_modify_cmd_internal).               *)
(***************************************************************************)
TheDev == "d1"
TheInst == "shA"
MsiThreads == {"msi0", "msi1"}
VectorOf(t) == IF t = "msi1" THEN 1 ELSE 0
\* The vectors the concurrent driver asks for and uses.
ConcVectors == {VectorOf(t) : t \in MsiThreads}
ConcRequest(mode) == IF mode = "LEGACY" THEN 1 ELSE Cardinality(ConcVectors)
ConcRegistrations == {<<NULL, "C1">>, <<"H1", "C1">>, <<"H2", "C2">>}
\* The driver replaces the callback of slot 0 by a second one; the other slots
\* have one callback.
OneCallback == {r \in ConcRegistrations : r[2] = "C1"}
ConcRegistrationsOf(irq_id) == IF irq_id = 0 THEN ConcRegistrations ELSE OneCallback

\* hstate->lock of slot irq_id of TheDev.
SlotLock(irq_id) == IF irq_id = 0 THEN "slot0" ELSE "slot1"

\* Mutant: a spinlock that is handed to whoever asks.
SpinLockFree_NoWait(l) == TRUE

\* AutoSpinLock: the constructor returns once the lock is free.
SpinLockFree(l) == lock[l] = NULL

Acquired(t, l) == [lock EXCEPT ![l] = t]

Released(lk, l) == [lk EXCEPT ![l] = NULL]

\* One step of thread t: the world it leaves, where it goes, its locals.
Step(w, t, newpc, newloc) ==
    /\ Commit(w)
    /\ pc' = [pc EXCEPT ![t] = newpc]
    /\ loc' = [loc EXCEPT ![t] = newloc]

CtlOp(name) == [NoOp EXCEPT !.name = name, !.d = TheDev]

\* FreeMsiBlock returns when no handler of the block is running.
MsiHandlersDrained == \A t \in MsiThreads \cup {"msi2"} : pc[t] = "idle"

(***************************************************************************)
(* The control plane, thread "ctl".  Entering a mode is a single step: it  *)
(* runs before any dispatcher can reach the device's slots.  loc.k is the  *)
(* slot of the request, loc.handler and loc.ctx the callback and the       *)
(* context to register.                                                    *)
(***************************************************************************)
\* pcie_set_irq_mode(dev, mode, n) on a DISABLED device
CtlEnter(mode) ==
    /\ pc["ctl"] = "idle"
    /\ dev[TheDev].mode = "DISABLED"
    /\ (mode = "LEGACY") => SpinLockFree("list_lock")
    /\ Commit(pcie_set_irq_mode(World, TheDev, mode, ConcRequest(mode), TRUE, TRUE))
    /\ op' = CtlOp("set_mode")
    /\ UNCHANGED <<pc, lock, loc>>

\* pcie_register_irq_handler(dev, irq_id, handler, ctx) on a slot of the table
\* The operation returns to the driver.
CtlReturn(w, lk, name) ==
    /\ lock' = Released(lk, "dev_lock")
    /\ Step(Return(w, "NO_ERROR"), "ctl", "idle", NoLocals)
    /\ op' = CtlOp(name)

\* pcie_register_irq_handler(dev, irq_id, handler, ctx) on a slot of the table:
\* takes dev_lock and runs up to the slot's lock.
CtlRegisterBegin(irq_id, handler, ctx) ==
    /\ pc["ctl"] = "idle"
    /\ Usable(World, TheDev)
    /\ dev[TheDev].mode # "DISABLED"
    /\ irq_id < dev[TheDev].handler_count
    /\ RegisteredCountAfter(dev[TheDev].registered_handler_count, NULL, handler)
          <= MaxRegCount
    /\ lock' = Acquired("ctl", "dev_lock")
    /\ Step(RegisterBookkeeping(World, TheDev, irq_id, handler), "ctl", "reg_lock",
            [NoLocals EXCEPT !.k = irq_id, !.handler = handler, !.ctx = ctx,
                             !.caller = "register_handler"])
    /\ UNCHANGED op

\* Mutant: the slot is written without its lock.
CtlRegisterLock_NoLock ==
    /\ pc["ctl"] = "reg_lock"
    /\ Step(World, "ctl", "reg_handler", loc["ctl"])
    /\ UNCHANGED <<lock, op>>

\* AutoSpinLockIrqSave handler_lock(hstate->lock)
CtlRegisterLock ==
    /\ pc["ctl"] = "reg_lock"
    /\ SpinLockFree(SlotLock(loc["ctl"].k))
    /\ lock' = Acquired("ctl", SlotLock(loc["ctl"].k))
    /\ Step(World, "ctl", "reg_handler", loc["ctl"])
    /\ UNCHANGED op

\* hstate->handler = handler
CtlRegisterHandler ==
    /\ pc["ctl"] = "reg_handler"
    /\ Step(StoreHandler(World, TheDev, loc["ctl"].k, loc["ctl"].handler),
            "ctl", "reg_ctx", loc["ctl"])
    /\ UNCHANGED <<lock, op>>

\* hstate->ctx = handler ? ctx : NULL; the slot's lock is released and the
\* operation returns NO_ERROR.
CtlRegisterCtx ==
    LET l == loc["ctl"]
    IN /\ pc["ctl"] = "reg_ctx"
       /\ CtlReturn(StoreCtx(World, TheDev, l.k, l.handler, l.ctx),
                    Released(lock, SlotLock(l.k)), "register_handler")

CtlRegisterSteps ==
    \/ CtlRegisterLock
    \/ CtlRegisterHandler
    \/ CtlRegisterCtx

\* pcie_mask_unmask_irq(dev, irq_id, mask), for the requests it does not refuse:
\* takes dev_lock and calls the routine of the current mode.
CtlMaskUnmaskBegin(irq_id, mask) ==
    LET d == dev[TheDev]
    IN /\ pc["ctl"] = "idle"
       /\ d.mode \in {"LEGACY", "MSI"}
       /\ irq_id < d.handler_count
       /\ mask \/ d.handlers[irq_id + 1].handler # NULL
       /\ (d.mode = "MSI" /\ mask) => (platform.supports_msi_masking \/ d.pvm)
       /\ lock' = Acquired("ctl", "dev_lock")
       /\ Step(World, "ctl",
               IF d.mode = "LEGACY" THEN "legacy_lock" ELSE "msi_lock",
               [NoLocals EXCEPT !.k = irq_id, !.mask = mask,
                                !.caller = "mask_unmask"])
       /\ UNCHANGED op

\* pcie_set_irq_mode(dev, DISABLED, 0) on a device in LEGACY or MSI mode: takes
\* dev_lock; LEGACY: calls pcie_mask_unmask_legacy_irq(dev, true); MSI: clears
\* the enable bit and starts the loop of pcie_mask_all_msi_vectors.
CtlDisableBegin ==
    LET d == dev[TheDev]
    IN /\ pc["ctl"] = "idle"
       /\ d.mode \in {"LEGACY", "MSI"}
       /\ lock' = Acquired("ctl", "dev_lock")
       /\ Step(IF d.mode = "LEGACY" THEN World
               ELSE pcie_set_msi_enb(World, TheDev, FALSE),
               "ctl",
               IF d.mode = "LEGACY" THEN "legacy_lock" ELSE "msi_lock",
               [NoLocals EXCEPT !.mask = TRUE, !.caller = "set_mode"])
       /\ UNCHANGED op

\* pcie_mask_unmask_legacy_irq: AutoSpinLockIrqSave lock(hstate->lock)
CtlLegacyLock ==
    /\ pc["ctl"] = "legacy_lock"
    /\ SpinLockFree("slot0")
    /\ lock' = Acquired("ctl", "slot0")
    /\ Step(World, "ctl", "legacy_read", loc["ctl"])
    /\ UNCHANGED op

\* val = pcie_read16(&cfg->base.command)
CtlLegacyRead ==
    /\ pc["ctl"] = "legacy_read"
    /\ Step(World, "ctl", "legacy_write",
            [loc["ctl"] EXCEPT !.val = ReadCommand(World, TheDev)])
    /\ UNCHANGED <<lock, op>>

\* Mutant: pcie_leave_legacy_irq_mode calls RemoveDevice with the slot's lock held.
CtlLegacyWrite_KeepSlotLock ==
    LET l == loc["ctl"]
        val == IF l.mask THEN l.val \cup {"INT_DISABLE"} ELSE l.val \ {"INT_DISABLE"}
        w1 == WriteCommand(World, TheDev, val)
        w2 == SetSlot(w1, TheDev, 0, [Slot(w1, TheDev, 0) EXCEPT !.masked = l.mask])
    IN /\ pc["ctl"] = "legacy_write"
       /\ IF l.caller = "mask_unmask"
          THEN CtlReturn(w2, Released(lock, "slot0"), "mask_unmask")
          ELSE /\ Step(w2, "ctl", "remove_lock", [l EXCEPT !.val = {}])
               /\ UNCHANGED <<lock, op>>

\* pcie_write16(&cfg->base.command, val); hstate->masked = mask; the lock is
\* released.  Called by mask_unmask, the operation returns; called by
\* pcie_leave_legacy_irq_mode, RemoveDevice follows.
CtlLegacyWrite ==
    LET l == loc["ctl"]
        val == IF l.mask THEN l.val \cup {"INT_DISABLE"} ELSE l.val \ {"INT_DISABLE"}
        w1 == WriteCommand(World, TheDev, val)
        w2 == SetSlot(w1, TheDev, 0, [Slot(w1, TheDev, 0) EXCEPT !.masked = l.mask])
    IN /\ pc["ctl"] = "legacy_write"
       /\ IF l.caller = "mask_unmask"
          THEN CtlReturn(w2, Released(lock, "slot0"), "mask_unmask")
          ELSE /\ lock' = Released(lock, "slot0")
               /\ Step(w2, "ctl", "remove_lock", [l EXCEPT !.val = {}])
               /\ UNCHANGED op

\* Mutant: RemoveDevice unlinks the device without the list lock.
CtlRemoveLock_NoLock ==
    /\ pc["ctl"] = "remove_lock"
    /\ Step(World, "ctl", "remove_read", loc["ctl"])
    /\ UNCHANGED <<lock, op>>

\* RemoveDevice: AutoSpinLockIrqSave lock(device_handler_list_lock_)
CtlRemoveLock ==
    /\ pc["ctl"] = "remove_lock"
    /\ SpinLockFree("list_lock")
    /\ lock' = Acquired("ctl", "list_lock")
    /\ Step(World, "ctl", "remove_read", loc["ctl"])
    /\ UNCHANGED op

\* RemoveDevice: pcie_read16(&dev->cfg->base.command)
CtlRemoveRead ==
    /\ pc["ctl"] = "remove_read"
    /\ Step(World, "ctl", "remove_write",
            [loc["ctl"] EXCEPT !.val = ReadCommand(World, TheDev)])
    /\ UNCHANGED <<lock, op>>

\* RemoveDevice: the write of command | INT_DISABLE, list_delete, the vector is
\* masked if the list is empty and the list lock released; then
\* pcie_reset_common_irq_bookkeeping, and set_mode returns.
CtlRemoveWrite ==
    LET i == dev[TheDev].shared_handler
        w1 == DebugAssert(World, InList(World, TheDev), 206)
        w2 == WriteCommand(w1, TheDev, loc["ctl"].val \cup {"INT_DISABLE"})
        w3 == [w2 EXCEPT !.sh[i].list = ListDelete(@, TheDev)]
        w4 == IF w3.sh[i].list = <<>> THEN mask_interrupt(w3, sh[i].irq_id) ELSE w3
        w5 == pcie_reset_common_irq_bookkeeping(w4, TheDev)
        w6 == DebugAssert(w5, w5.dev[TheDev].registered_handler_count = 0, 640)
    IN /\ pc["ctl"] = "remove_write"
       /\ CtlReturn(w6, Released(lock, "list_lock"), "set_mode")

\* The loop of pcie_mask_all_msi_vectors moves to the next vector, or ends.
CtlNextVector(w, lk) ==
    LET l == loc["ctl"]
    IN /\ lock' = lk
       /\ IF l.k + 1 < dev[TheDev].handler_count
          THEN Step(w, "ctl", "msi_lock", [l EXCEPT !.k = @ + 1, !.val = {}])
          ELSE Step(w, "ctl", "mask_all_done", [l EXCEPT !.val = {}])
       /\ UNCHANGED op

\* pcie_mask_unmask_msi_irq returns ERR_NOT_SUPPORTED: nothing can mask.
CtlMsiNotSupported ==
    /\ pc["ctl"] = "msi_lock"
    /\ loc["ctl"].mask /\ ~platform.supports_msi_masking /\ ~dev[TheDev].pvm
    /\ CtlNextVector(World, lock)

\* pcie_mask_unmask_msi_irq: AutoSpinLockIrqSave handler_lock(handlers[irq_id].lock)
CtlMsiLock ==
    LET l == loc["ctl"]
    IN /\ pc["ctl"] = "msi_lock"
       /\ ~(l.mask /\ ~platform.supports_msi_masking /\ ~dev[TheDev].pvm)
       /\ SpinLockFree(SlotLock(l.k))
       /\ lock' = Acquired("ctl", SlotLock(l.k))
       /\ Step(World, "ctl", IF dev[TheDev].pvm THEN "msi_read" ELSE "msi_write", l)
       /\ UNCHANGED op

\* pcie_mask_unmask_msi_irq_locked: val = pcie_read32(dev.irq.msi.pvm_mask_reg)
CtlMsiRead ==
    /\ pc["ctl"] = "msi_read"
    /\ Step(World, "ctl", "msi_write",
            [loc["ctl"] EXCEPT !.val = dev[TheDev].pvm_reg])
    /\ UNCHANGED <<lock, op>>

\* pcie_mask_unmask_msi_irq_locked: the write of the PVM register, the platform's
\* mask, hstate->masked = mask; the slot's lock is released.
CtlMsiWrite ==
    LET l == loc["ctl"]
        w1 == IF dev[TheDev].pvm
              THEN PvmWrite(World, TheDev, PvmModify(l.val, l.k, l.mask))
              ELSE World
        w2 == MsiMaskPlatformAndFlag(w1, TheDev, l.k, l.mask)
    IN /\ pc["ctl"] = "msi_write"
       /\ IF l.caller = "mask_unmask"
          THEN CtlReturn(w2, Released(lock, SlotLock(l.k)), "mask_unmask")
          ELSE CtlNextVector(w2, Released(lock, SlotLock(l.k)))

\* The end of pcie_mask_all_msi_vectors (the PVM register is written with all
\* ones) and of pcie_set_msi_target(dev, 0, 0).
CtlMaskAllDone ==
    LET w1 == IF dev[TheDev].pvm THEN PvmWrite(World, TheDev, PvmBits) ELSE World
    IN /\ pc["ctl"] = "mask_all_done"
       /\ Step(WriteMsiTarget(w1, TheDev, <<0, 0>>, 0), "ctl", "free_block",
               loc["ctl"])
       /\ UNCHANGED <<lock, op>>

\* pcie_free_msi_block: every vector is masked at the platform and its handler
\* unregistered.
CtlFreeBlock ==
    /\ pc["ctl"] = "free_block"
    /\ Step(FreeVectorsFrom(DebugAssert(World, platform.supports_msi, 427),
                            TheDev, 0),
            "ctl", "drain", loc["ctl"])
    /\ UNCHANGED <<lock, op>>

\* FreeMsiBlock, which returns once the handlers have drained; then
\* pcie_reset_common_irq_bookkeeping, and set_mode returns.
CtlDrainAndReset ==
    LET w1 == FreeMsiBlock(World, TheDev)
        w2 == DebugAssert(w1, ~w1.dev[TheDev].block.allocated, 440)
        w3 == pcie_reset_common_irq_bookkeeping(w2, TheDev)
        w4 == DebugAssert(w3, w3.dev[TheDev].registered_handler_count = 0, 649)
    IN /\ pc["ctl"] = "drain"
       /\ MsiHandlersDrained
       /\ CtlReturn(w4, lock, "set_mode")

(***************************************************************************)
(* SharedLegacyIrqHandler::Handler on a thread t.  loc.k is the position   *)
(* of the pass in the device list, loc.dev the device being serviced.      *)
(***************************************************************************)
\* The platform takes the vector and calls the handler registered for it.
IrqBegin(t) ==
    /\ pc[t] = "idle"
    /\ sh[TheInst].live
    /\ vec[sh[TheInst].irq_id].handler = TheInst
    /\ Step(World, t, "list_lock", NoLocals)
    /\ UNCHANGED <<lock, op>>

\* AutoSpinLock list_lock(device_handler_list_lock_)
IrqListLock(t) ==
    /\ pc[t] = "list_lock"
    /\ SpinLockFree("list_lock")
    /\ lock' = Acquired(t, "list_lock")
    /\ Step(World, t, "pass", [NoLocals EXCEPT !.k = 1])
    /\ UNCHANGED op

\* The list is empty (the vector is masked and the handler returns), the pass is
\* over (the handler returns), or the next device is serviced, starting with the
\* temporary AutoSpinLock(dev->cmd_reg_lock), released as soon as it is taken.
IrqPass(t) ==
    LET list == sh[TheInst].list
    IN /\ pc[t] = "pass"
       /\ UNCHANGED op
       /\ IF list = <<>>
          THEN /\ lock' = Released(lock, "list_lock")
               /\ Step(mask_interrupt(World, sh[TheInst].irq_id), t, "idle",
                       NoLocals)
          ELSE IF loc[t].k > Len(list)
          THEN /\ lock' = Released(lock, "list_lock")
               /\ Step(World, t, "idle", NoLocals)
          ELSE /\ SpinLockFree("cmd_reg_lock")
               /\ Step(World, t, "read",
                       [loc[t] EXCEPT !.dev = list[loc[t].k]])
               /\ UNCHANGED lock

\* command and status are read.  asserting: status.INT_STS as read.
IrqRead(t, asserting) ==
    LET d == loc[t].dev
    IN /\ pc[t] = "read"
       /\ IF asserting /\ "INT_DISABLE" \notin ReadCommand(World, d)
          THEN Step(World, t, "slot_lock", loc[t])
          ELSE Step(World, t, "pass", [loc[t] EXCEPT !.k = @ + 1])
       /\ UNCHANGED <<lock, op>>

\* With a handler table: AutoSpinLock device_handler_lock(hstate->lock), then the
\* callback is entered if there is one and the slot is not masked, else the
\* interrupt is to be forced off.  Without a table it is forced off at once.
IrqSlotLock(t) ==
    LET d == loc[t].dev
        hstate == Slot(World, d, 0)
    IN /\ pc[t] = "slot_lock"
       /\ UNCHANGED op
       /\ IF dev[d].handlers_ptr # NULL
          THEN /\ SpinLockFree("slot0")
               /\ lock' = Acquired(t, "slot0")
               /\ IF hstate.handler # NULL /\ ~hstate.masked
                  THEN Step(World, t, "callback",
                            [loc[t] EXCEPT !.handler = hstate.handler,
                                               !.ctx = hstate.ctx])
                  ELSE Step(SetSlot(World, d, 0, [hstate EXCEPT !.masked = TRUE]),
                            t, "force_tmp", loc[t])
          ELSE /\ Step(World, t, "force_tmp", loc[t])
               /\ UNCHANGED lock

\* The driver's callback returns irq_ret.
IrqCallbackReturn(t, irq_ret) ==
    LET d == loc[t].dev
    IN /\ pc[t] = "callback"
       /\ UNCHANGED op
       /\ IF "MASK" \in irq_ret
          THEN /\ Step(SetSlot(World, d, 0, [Slot(World, d, 0) EXCEPT !.masked = TRUE]),
                       t, "force_tmp", loc[t])
               /\ UNCHANGED lock
          ELSE /\ lock' = Released(lock, "slot0")
               /\ Step(World, t, "pass", [loc[t] EXCEPT !.k = @ + 1])

\* The temporary AutoSpinLock(dev->cmd_reg_lock) before the forced mask.
IrqForceTmp(t) ==
    /\ pc[t] = "force_tmp"
    /\ SpinLockFree("cmd_reg_lock")
    /\ Step(World, t, "force_read", loc[t])
    /\ UNCHANGED <<lock, op>>

\* command = pcie_read16(&cfg->base.command)
IrqForceRead(t) ==
    LET d == loc[t].dev
    IN /\ pc[t] = "force_read"
       /\ Step(World, t, "force_write",
               [loc[t] EXCEPT !.val = ReadCommand(World, d)])
       /\ UNCHANGED <<lock, op>>

\* pcie_write16(&cfg->base.command, command | PCIE_CFG_COMMAND_INT_DISABLE); the
\* slot's lock, if taken, is released and the pass moves on.
IrqForceWrite(t) ==
    LET d == loc[t].dev
    IN /\ pc[t] = "force_write"
       /\ lock' = IF lock["slot0"] = t THEN Released(lock, "slot0") ELSE lock
       /\ Step(WriteCommand(World, d, loc[t].val \cup {"INT_DISABLE"}),
               t, "pass", [loc[t] EXCEPT !.k = @ + 1, !.val = {}])
       /\ UNCHANGED op

(***************************************************************************)
(* pcie_msi_irq_handler on the thread t of a vector.                       *)
(***************************************************************************)
\* The platform takes the vector and calls the handler registered for it.
MsiBegin(t) ==
    /\ pc[t] = "idle"
    /\ VectorOf(t) \in msiplat[TheDev].handler
    /\ Step(World, t, "lock", NoLocals)
    /\ UNCHANGED <<lock, op>>

\* Mutant: the MSI dispatcher takes the slot's lock without waiting for it.
MsiLock_NoWait(t) ==
    LET v == VectorOf(t)
        hstate == Slot(World, TheDev, v)
        can_mask == platform.supports_msi_masking \/ dev[TheDev].pvm
    IN /\ pc[t] = "lock"
       /\ UNCHANGED op
       /\ IF can_mask
          THEN /\ lock' = Acquired(t, SlotLock(v))
               /\ Step(World, t, IF dev[TheDev].pvm THEN "rmw_read" ELSE "rmw_write",
                       [NoLocals EXCEPT !.mask = TRUE])
          ELSE IF hstate.handler = NULL
          THEN /\ Step(DebugAssert(World, ~hstate.masked, 399), t, "idle", NoLocals)
               /\ UNCHANGED lock
          ELSE /\ lock' = Acquired(t, SlotLock(v))
               /\ Step(DebugAssert(World, ~hstate.masked, 399), t, "callback",
                       [NoLocals EXCEPT !.handler = hstate.handler,
                                        !.ctx = hstate.ctx])

\* AutoSpinLock handler_lock(hstate->lock).  If the vector can be masked the
\* masking read-modify-write follows; if not, was_masked is false and the
\* callback is entered unless there is none.
MsiLock(t) ==
    LET v == VectorOf(t)
        hstate == Slot(World, TheDev, v)
        can_mask == platform.supports_msi_masking \/ dev[TheDev].pvm
    IN /\ pc[t] = "lock"
       /\ SpinLockFree(SlotLock(v))
       /\ UNCHANGED op
       /\ IF can_mask
          THEN /\ lock' = Acquired(t, SlotLock(v))
               /\ Step(World, t, IF dev[TheDev].pvm THEN "rmw_read" ELSE "rmw_write",
                       [NoLocals EXCEPT !.mask = TRUE])
          ELSE IF hstate.handler = NULL
          THEN /\ Step(DebugAssert(World, ~hstate.masked, 399), t, "idle", NoLocals)
               /\ UNCHANGED lock
          ELSE /\ lock' = Acquired(t, SlotLock(v))
               /\ Step(DebugAssert(World, ~hstate.masked, 399), t, "callback",
                       [NoLocals EXCEPT !.handler = hstate.handler,
                                        !.ctx = hstate.ctx])

\* pcie_mask_unmask_msi_irq_locked: val = pcie_read32(dev.irq.msi.pvm_mask_reg)
MsiRmwRead(t) ==
    /\ pc[t] = "rmw_read"
    /\ Step(World, t, "rmw_write", [loc[t] EXCEPT !.val = dev[TheDev].pvm_reg])
    /\ UNCHANGED <<lock, op>>

\* pcie_mask_unmask_msi_irq_locked: the write of the PVM register, the platform's
\* mask, hstate->masked = mask.  On the way in (mask) the handler returns if the
\* slot was masked or has no callback, else the callback is entered; on the way
\* out (unmask) the handler returns.
MsiRmwWrite(t) ==
    LET v == VectorOf(t)
        l == loc[t]
        hstate == Slot(World, TheDev, v)
        w1 == IF dev[TheDev].pvm
              THEN PvmWrite(World, TheDev, PvmModify(l.val, v, l.mask))
              ELSE World
        w2 == MsiMaskPlatformAndFlag(w1, TheDev, v, l.mask)
    IN /\ pc[t] = "rmw_write"
       /\ UNCHANGED op
       /\ IF l.mask /\ ~hstate.masked /\ hstate.handler # NULL
          THEN /\ Step(w2, t, "callback",
                       [NoLocals EXCEPT !.handler = hstate.handler,
                                        !.ctx = hstate.ctx])
               /\ UNCHANGED lock
          ELSE /\ lock' = Released(lock, SlotLock(v))
               /\ Step(w2, t, "idle", NoLocals)

\* The driver's callback returns irq_ret: the vector is unmasked unless the
\* driver asks for it to stay masked.
MsiCallbackReturn(t, irq_ret) ==
    /\ pc[t] = "callback"
    /\ UNCHANGED op
    /\ IF "MASK" \in irq_ret
       THEN /\ lock' = Released(lock, SlotLock(VectorOf(t)))
            /\ Step(World, t, "idle", NoLocals)
       ELSE /\ Step(World, t, IF dev[TheDev].pvm THEN "rmw_read" ELSE "rmw_write",
                    [NoLocals EXCEPT !.mask = FALSE])
            /\ UNCHANGED lock

(***************************************************************************)
(* Another writer of the command register, thread "bus": it sets or clears *)
(* BUS_MASTER in a read-modify-write under the device's cmd_reg_lock.      *)
(* loc.mask is the value it writes, loc.k is 1 once it has written.        *)
(***************************************************************************)
BusBegin(want) ==
    /\ pc["bus"] = "idle"
    /\ SpinLockFree("cmd_reg_lock")
    /\ lock' = Acquired("bus", "cmd_reg_lock")
    /\ Step(World, "bus", "read", [loc["bus"] EXCEPT !.mask = want])
    /\ UNCHANGED op

BusRead ==
    /\ pc["bus"] = "read"
    /\ Step(World, "bus", "write",
            [loc["bus"] EXCEPT !.val = ReadCommand(World, TheDev)])
    /\ UNCHANGED <<lock, op>>

BusWrite ==
    LET l == loc["bus"]
        val == IF l.mask THEN l.val \cup {"BUS_MASTER"} ELSE l.val \ {"BUS_MASTER"}
    IN /\ pc["bus"] = "write"
       /\ lock' = Released(lock, "cmd_reg_lock")
       /\ Step(WriteCommand(World, TheDev, val), "bus", "idle",
               [l EXCEPT !.val = {}, !.k = 1])
       /\ UNCHANGED op

(***************************************************************************)
(* SpecConc: the control plane against the legacy and the MSI dispatchers, *)
(* on an MSI capable device that also has a legacy pin.                    *)
(***************************************************************************)
ConcInit ==
    /\ \E pvm \in BOOLEAN, p \in {q \in Platforms : q.supports_msi} :
          InitMsiSystem(pvm, p)
    /\ Quiescent

CtlLegacySteps ==
    \/ CtlLegacyLock
    \/ CtlLegacyRead
    \/ CtlLegacyWrite
    \/ CtlRemoveLock
    \/ CtlRemoveRead
    \/ CtlRemoveWrite

CtlMsiSteps ==
    \/ CtlMsiNotSupported
    \/ CtlMsiLock
    \/ CtlMsiRead
    \/ CtlMsiWrite
    \/ CtlMaskAllDone
    \/ CtlFreeBlock
    \/ CtlDrainAndReset

\* SharedLegacyIrqHandler::Handler of TheInst on the core t.
LegacyDispatch(t) ==
    \/ IrqBegin(t)
    \/ IrqListLock(t)
    \/ IrqPass(t)
    \/ \E asserting \in BOOLEAN : IrqRead(t, asserting)
    \/ IrqSlotLock(t)
    \/ \E irq_ret \in IrqRets : IrqCallbackReturn(t, irq_ret)
    \/ IrqForceTmp(t)
    \/ IrqForceRead(t)
    \/ IrqForceWrite(t)

IrqSteps == LegacyDispatch("irq")

\* pcie_msi_irq_handler on the core t.
MsiDispatch(t) ==
    \/ MsiBegin(t)
    \/ MsiLock(t)
    \/ MsiRmwRead(t)
    \/ MsiRmwWrite(t)
    \/ \E irq_ret \in IrqRets : MsiCallbackReturn(t, irq_ret)

MsiSteps == \E t \in MsiThreads : MsiDispatch(t)

BusSteps ==
    \/ \E want \in BOOLEAN : BusBegin(want)
    \/ BusRead
    \/ BusWrite

NextConc ==
    \/ \E mode \in {"LEGACY", "MSI"} : CtlEnter(mode)
    \/ \E irq_id \in ConcVectors : \E r \in ConcRegistrationsOf(irq_id) :
          CtlRegisterBegin(irq_id, r[1], r[2])
    \/ CtlRegisterSteps
    \/ \E irq_id \in ConcVectors, mask \in BOOLEAN : CtlMaskUnmaskBegin(irq_id, mask)
    \/ CtlDisableBegin
    \/ CtlLegacySteps
    \/ CtlMsiSteps
    \/ IrqSteps
    \/ MsiSteps

SpecConc == ConcInit /\ [][NextConc]_vars

(***************************************************************************)
(* SpecCores: one interrupt taken by two cores at once.  Cores "irq" and   *)
(* "irq2" run the shared legacy handler of TheInst, cores "msi0" and       *)
(* "msi2" run the MSI dispatcher of vector 0 of the device's block, while  *)
(* the control plane registers, masks, unmasks and tears down slot 0.      *)
(***************************************************************************)
LegacyCores == {"irq", "irq2"}
Slot0Cores == {"msi0", "msi2"}

CoresInit ==
    /\ \E pvm \in BOOLEAN :
          InitMsiSystem(pvm, [supports_msi |-> TRUE, supports_msi_masking |-> pvm])
    /\ Quiescent

NextCores ==
    \/ \E mode \in {"LEGACY", "MSI"} : CtlEnter(mode)
    \/ \E r \in ConcRegistrations : CtlRegisterBegin(0, r[1], r[2])
    \/ CtlRegisterSteps
    \/ \E mask \in BOOLEAN : CtlMaskUnmaskBegin(0, mask)
    \/ CtlDisableBegin
    \/ CtlLegacySteps
    \/ CtlMsiSteps
    \/ \E t \in LegacyCores : LegacyDispatch(t)
    \/ \E t \in Slot0Cores : MsiDispatch(t)

SpecCores == CoresInit /\ [][NextCores]_vars

(***************************************************************************)
(* SpecCmd: the control plane and the legacy dispatcher against the other  *)
(* writer of the command register, on a legacy-only device.                *)
(***************************************************************************)
CmdInit ==
    /\ InitLegacySystem("shB")
    /\ Quiescent

NextCmd ==
    \/ CtlEnter("LEGACY")
    \/ \E r \in ConcRegistrations : CtlRegisterBegin(0, r[1], r[2])
    \/ CtlRegisterSteps
    \/ \E mask \in BOOLEAN : CtlMaskUnmaskBegin(0, mask)
    \/ CtlDisableBegin
    \/ CtlLegacySteps
    \/ IrqSteps
    \/ BusSteps

SpecCmd == CmdInit /\ [][NextCmd]_vars

(***************************************************************************)
(* The bus driver's registry of shared legacy handlers and the             *)
(* initialisation of a device's IRQ state.                                 *)
(***************************************************************************)
\* The instance of the registry for system vector irq_id, NULL if there is none.
RegistryLookup(w, irq_id) ==
    LET hits == SelectSeq(w.legacy_irq_list, LAMBDA i : w.sh[i].irq_id = irq_id)
    IN IF hits = <<>> THEN NULL ELSE Head(hits)

\* The storage a new instance would be allocated in, NULL if there is none left.
FreeInst(w) ==
    IF \E i \in Insts : ~w.sh[i].live
    THEN CHOOSE i \in Insts : ~w.sh[i].live
    ELSE NULL

\* PcieBusDriver::FindLegacyIrqHandler, the lock apart.  ac_ok: the allocation of
\* SharedLegacyIrqHandler::Create succeeds.  The handler returned is in out.
FindLegacyIrqHandler(w, irq_id, ac_ok) ==
    LET found == RegistryLookup(w, irq_id)
        i == FreeInst(w)
    IN IF found # NULL
       THEN [w EXCEPT !.out = found]
       ELSE IF ac_ok /\ i # NULL
       THEN [SharedLegacyIrqHandler_ctor(w, i, irq_id)
                EXCEPT !.legacy_irq_list = <<i>> \o @, !.out = i]
       ELSE [w EXCEPT !.out = NULL]

\* SharedLegacyIrqHandler::~SharedLegacyIrqHandler
SharedLegacyIrqHandler_dtor(w, i) ==
    LET w1 == DebugAssert(w, w.sh[i].list = <<>>, 99)
        w2 == mask_interrupt(w1, w.sh[i].irq_id)
        w3 == register_int_handler(w2, w.sh[i].irq_id, NULL)
    IN [w3 EXCEPT !.sh[i] = DeadInst]

RECURSIVE ReleaseInsts(_, _)
ReleaseInsts(w, list) ==
    IF list = <<>>
    THEN w
    ELSE ReleaseInsts(IF \E d \in Devs : w.dev[d].shared_handler = Head(list)
                      THEN w
                      ELSE SharedLegacyIrqHandler_dtor(w, Head(list)),
                      Tail(list))

\* PcieBusDriver::ShutdownIrqs, the lock apart: the registry drops its references;
\* an instance no device refers to is destroyed.
ShutdownIrqs(w) ==
    ReleaseInsts([w EXCEPT !.legacy_irq_list = <<>>], w.legacy_irq_list)

\* pcie_init_device_irq_state up to the call of FindLegacyIrqHandler.  pin: the
\* interrupt pin register as read.
InitIrqStateBegin(w, d, pin) ==
    LET w1 == DebugAssert(w, w.dev[d].pin = 0, 832)
        w2 == DebugAssert(w1, w.dev[d].shared_handler = NULL, 833)
        w3 == WriteCommand(w2, d, ReadCommand(w2, d) \cup {"INT_DISABLE"})
    IN [w3 EXCEPT !.dev[d].pin = pin]

\* pcie_init_device_irq_state from the call of FindLegacyIrqHandler(irq_id) on.
InitIrqStateFind(w, d, irq_id, ac_ok) ==
    LET w1 == FindLegacyIrqHandler(w, irq_id, ac_ok)
        w2 == [w1 EXCEPT !.dev[d].shared_handler = w1.out, !.out = NULL]
    IN Return(w2, IF w1.out = NULL THEN "ERR_NO_RESOURCES" ELSE "NO_ERROR")

\* irq_id: what MapPinToIrq answers.
pcie_init_device_irq_state(w, d, pin, irq_id, ac_ok) ==
    IF pin = 0
    THEN Return(InitIrqStateBegin(w, d, pin), "NO_ERROR")
    ELSE InitIrqStateFind(InitIrqStateBegin(w, d, pin), d, irq_id, ac_ok)

(***************************************************************************)
(* SpecLock: the control plane of TheDev and the legacy dispatcher against *)
(* the registry.  Thread "scan" initialises the IRQ state of the device    *)
(* ScanDev, holding that device's dev_lock ("dev_lock2") as its caller     *)
(* does; thread "stop" shuts the bus driver's IRQs down.  Entering legacy  *)
(* mode is taken in steps here, the acquisition of list_lock being one.    *)
(***************************************************************************)
ScanDev == "d2"
Pins == 0..2

\* AutoLock: the constructor returns once the mutex is free.
MutexFree(l) == lock[l] = NULL

\* pcie_set_irq_mode(dev, LEGACY, 1) on a DISABLED device with a pin: takes dev_lock
\* and runs up to AddDevice.
CtlAddBegin ==
    /\ pc["ctl"] = "idle"
    /\ dev[TheDev].mode = "DISABLED"
    /\ pcie_set_irq_mode(World, TheDev, "LEGACY", 1, TRUE, TRUE).ret = "NO_ERROR"
    /\ lock' = Acquired("ctl", "dev_lock")
    /\ Step(World, "ctl", "add_lock", [NoLocals EXCEPT !.caller = "set_mode"])
    /\ UNCHANGED op

\* AddDevice: AutoSpinLockIrqSave lock(device_handler_list_lock_)
CtlAddLock ==
    /\ pc["ctl"] = "add_lock"
    /\ SpinLockFree("list_lock")
    /\ lock' = Acquired("ctl", "list_lock")
    /\ Step(World, "ctl", "add_device", loc["ctl"])
    /\ UNCHANGED op

\* AddDevice: the device is masked and linked, the vector unmasked if the device
\* is the first of the list; the list lock is released and set_mode returns.
CtlAddDevice ==
    /\ pc["ctl"] = "add_device"
    /\ CtlReturn(pcie_set_irq_mode(World, TheDev, "LEGACY", 1, TRUE, TRUE),
                 Released(lock, "list_lock"), "set_mode")

CtlAddSteps ==
    \/ CtlAddBegin
    \/ CtlAddLock
    \/ CtlAddDevice

\* pcie_init_device_irq_state(ScanDev) of a device not yet initialised, called with
\* the device's dev_lock held.
ScanBegin(pin, irq_id) ==
    /\ pc["scan"] = "idle"
    /\ dev[ScanDev].pin = 0
    /\ dev[ScanDev].shared_handler = NULL
    /\ MutexFree("dev_lock2")
    /\ IF pin = 0
       THEN /\ Step(pcie_init_device_irq_state(World, ScanDev, pin, irq_id, TRUE),
                    "scan", "idle", NoLocals)
            /\ UNCHANGED lock
       ELSE /\ lock' = Acquired("scan", "dev_lock2")
            /\ Step(InitIrqStateBegin(World, ScanDev, pin), "scan", "find_lock",
                    [NoLocals EXCEPT !.k = irq_id])
    /\ UNCHANGED op

\* FindLegacyIrqHandler: AutoLock lock(legacy_irq_list_lock_)
ScanFindLock ==
    /\ pc["scan"] = "find_lock"
    /\ MutexFree("legacy_irq_list_lock")
    /\ lock' = Acquired("scan", "legacy_irq_list_lock")
    /\ Step(World, "scan", "find", loc["scan"])
    /\ UNCHANGED op

\* FindLegacyIrqHandler searches, creates and returns; the initialisation returns.
ScanFind(ac_ok) ==
    /\ pc["scan"] = "find"
    /\ lock' = Released(Released(lock, "legacy_irq_list_lock"), "dev_lock2")
    /\ Step(InitIrqStateFind(World, ScanDev, loc["scan"].k, ac_ok), "scan", "idle",
            NoLocals)
    /\ op' = [NoOp EXCEPT !.name = "init_irq_state", !.d = ScanDev]

\* PcieBusDriver::ShutdownIrqs is called.
StopBegin ==
    /\ pc["stop"] = "idle"
    /\ legacy_irq_list # <<>>
    /\ Step(World, "stop", "stop_lock", NoLocals)
    /\ UNCHANGED <<lock, op>>

\* ShutdownIrqs: AutoLock lock(legacy_irq_list_lock_)
StopLock ==
    /\ pc["stop"] = "stop_lock"
    /\ MutexFree("legacy_irq_list_lock")
    /\ lock' = Acquired("stop", "legacy_irq_list_lock")
    /\ Step(World, "stop", "clear", NoLocals)
    /\ UNCHANGED op

\* ShutdownIrqs: legacy_irq_list_.clear() and the return.
StopClear ==
    /\ pc["stop"] = "clear"
    /\ lock' = Released(lock, "legacy_irq_list_lock")
    /\ Step(ShutdownIrqs(World), "stop", "idle", NoLocals)
    /\ op' = [NoOp EXCEPT !.name = "shutdown_irqs"]

RegistrySteps ==
    \/ \E pin \in Pins, irq_id \in Vecs : ScanBegin(pin, irq_id)
    \/ ScanFindLock
    \/ \E ac_ok \in BOOLEAN : ScanFind(ac_ok)
    \/ StopBegin
    \/ StopLock
    \/ StopClear

LockInit ==
    /\ InitMsiSystem(FALSE, [supports_msi |-> FALSE, supports_msi_masking |-> FALSE])
    /\ Quiescent

NextLock ==
    \/ CtlAddSteps
    \/ \E r \in OneCallback : CtlRegisterBegin(0, r[1], r[2])
    \/ CtlRegisterSteps
    \/ \E mask \in BOOLEAN : CtlMaskUnmaskBegin(0, mask)
    \/ CtlDisableBegin
    \/ CtlLegacySteps
    \/ IrqSteps
    \/ RegistrySteps

SpecLock == LockInit /\ [][NextLock]_vars

(***************************************************************************)
(* SpecPlug: the kernel API of TheDev, no dispatcher running, while the    *)
(* bus driver unplugs or disables the device.  Neither is part of this     *)
(* file: the device keeps its IRQ state and loses plugged_in, or gains     *)
(* disabled, under dev_lock.                                               *)
(***************************************************************************)
Unplug(d) ==
    /\ dev[d].plugged_in
    /\ Commit([World EXCEPT !.dev[d].plugged_in = FALSE])
    /\ op' = [NoOp EXCEPT !.name = "unplug", !.d = d]
    /\ UNCHANGED <<pc, lock, loc>>

Disable(d) ==
    /\ ~dev[d].disabled
    /\ Commit([World EXCEPT !.dev[d].disabled = TRUE])
    /\ op' = [NoOp EXCEPT !.name = "disable", !.d = d]
    /\ UNCHANGED <<pc, lock, loc>>

QueryCapabilities(d, mode, has_out) ==
    /\ Commit(pcie_query_irq_mode_capabilities(World, d, mode, has_out))
    /\ op' = [NoOp EXCEPT !.name = "query_capabilities", !.d = d]
    /\ UNCHANGED <<pc, lock, loc>>

GetMode(d, has_out) ==
    /\ Commit(pcie_get_irq_mode(World, d, has_out))
    /\ op' = [NoOp EXCEPT !.name = "get_mode", !.d = d]
    /\ UNCHANGED <<pc, lock, loc>>

\* The device has a PVM register on a platform that masks MSI vectors, or neither.
PlugInit ==
    /\ \E pvm \in BOOLEAN :
          InitMsiSystem(pvm, [supports_msi |-> TRUE, supports_msi_masking |-> pvm])
    /\ Quiescent

NextPlug ==
    \/ \E mode \in Modes, n \in ReqIrqs :
          SetModeInputs(TheDev, mode, n, TRUE, TRUE)
          /\ SetMode(TheDev, mode, n, TRUE, TRUE)
    \/ \E irq_id \in 0..MaxIrqs, r \in Registrations :
          RegisterHandler(TheDev, irq_id, r[1], r[2])
    \/ \E irq_id \in 0..MaxIrqs, mask \in BOOLEAN : MaskUnmask(TheDev, irq_id, mask)
    \/ \E mode \in Modes, has_out \in BOOLEAN : QueryCapabilities(TheDev, mode, has_out)
    \/ \E has_out \in BOOLEAN : GetMode(TheDev, has_out)
    \/ Unplug(TheDev)
    \/ Disable(TheDev)

SpecPlug == PlugInit /\ [][NextPlug]_vars

(***************************************************************************)
(* What the claims speak of.                                               *)
(***************************************************************************)
ActiveModes == {"LEGACY", "MSI", "MSI_X"}

\* The callbacks installed in the slots [0, handler_count) of device d.
RegisteredSlots(d) ==
    {i \in 1..dev[d].handler_count :
        i <= Len(dev[d].handlers) /\ dev[d].handlers[i].handler # NULL}

\* The instances whose device list holds d.
ListsHolding(d) ==
    {i \in Insts : \E k \in 1..Len(sh[i].list) : sh[i].list[k] = d}

\* World w differs from the current state in nothing but ret, dbg and calls.
StateUnchanged(w) ==
    /\ w.dev = dev
    /\ w.sh = sh
    /\ w.legacy_irq_list = legacy_irq_list
    /\ w.vec = vec
    /\ w.msiplat = msiplat
    /\ w.platform = platform

(***************************************************************************)
(* C1 (stated as claimed; refuted by the code): at the return of every     *)
(* public operation, mode == DISABLED if and only if handler_count == 0    *)
(* and registered_handler_count == 0.                                      *)
(***************************************************************************)
C1_DisabledIffNoHandlers ==
    \A d \in Devs :
        (dev[d].mode = "DISABLED")
            <=> (dev[d].handler_count = 0 /\ dev[d].registered_handler_count = 0)

(***************************************************************************)
(* C2 (stated as claimed; refuted by the code): registered_handler_count   *)
(* equals the number of slots in [0, handler_count) with a non-null        *)
(* callback, it is at most handler_count, and the DEBUG_ASSERTs of         *)
(* register_handler (lines 704 and 711) never fail.                        *)
(***************************************************************************)
C2_RegisteredCountIsSlotCount ==
    /\ \A d \in Devs :
          /\ dev[d].registered_handler_count = Cardinality(RegisteredSlots(d))
          /\ dev[d].registered_handler_count <= dev[d].handler_count
    /\ dbg \notin {704, 711}

(***************************************************************************)
(* C6: for every live shared legacy dispatcher, after any sequence of      *)
(* attach, detach and dispatch (spurious dispatches included), its         *)
(* platform vector is unmasked if and only if its device list is not       *)
(* empty.                                                                  *)
(***************************************************************************)
(* C3: with the dispatchers running concurrently, once set_mode(DISABLED)  *)
(* has returned for the device no driver callback of the device is running *)
(* and none is started while the device stays DISABLED.  (The device is    *)
(* the only one ever linked in the dispatcher's list here, so a callback   *)
(* entered by "irq" is one of its callbacks.)  The platform's FreeMsiBlock *)
(* is taken to drain the running MSI handlers, as the claim supposes.      *)
(***************************************************************************)
C3_NoCallbackAfterDisable ==
    (pc["ctl"] = "idle" /\ dev[TheDev].mode = "DISABLED")
        => \A t \in {"irq"} \cup MsiThreads : pc[t] # "callback"

\* set_mode(DISABLED) has returned while a dispatch pass was under way: the pass
\* holds the list lock and finds no device.
C3_Witness ==
    /\ op.name = "set_mode"
    /\ pc["ctl"] = "idle"
    /\ dev[TheDev].mode = "DISABLED"
    /\ pc["irq"] = "pass"
    /\ lock["list_lock"] = "irq"
    /\ sh[TheInst].list = <<>>

(***************************************************************************)
(* C4 (stated as claimed; refuted by the code): for a device in MSI mode   *)
(* with a PVM mask register, whenever no operation holds the lock of slot  *)
(* i, bit i of the PVM mask register equals the masked flag of slot i.     *)
(***************************************************************************)
C4_PvmBitIsMaskedFlag ==
    \A v \in ConcVectors :
        (/\ dev[TheDev].mode = "MSI"
         /\ dev[TheDev].pvm
         /\ v < dev[TheDev].handler_count
         /\ lock[SlotLock(v)] = NULL)
            => ((v \in dev[TheDev].pvm_reg) <=> dev[TheDev].handlers[v + 1].masked)

(***************************************************************************)
(* C5 (stated as claimed; refuted by the code): every read-modify-write of *)
(* the command register by the engine is made holding cmd_reg_lock, so     *)
(* that an update by another writer that holds the lock is never lost (the *)
(* BUS_MASTER bit is what that writer last wrote) and never undoes the     *)
(* engine's INT_DISABLE write (a masked legacy slot has INT_DISABLE set).  *)
(***************************************************************************)
C5_RmwHoldsCmdRegLock ==
    /\ pc["ctl"] \in {"legacy_write", "remove_write"} => lock["cmd_reg_lock"] = "ctl"
    /\ pc["irq"] = "force_write" => lock["cmd_reg_lock"] = "irq"

C5_OtherWriterUpdateKept ==
    (pc["bus"] = "idle" /\ loc["bus"].k = 1)
        => (("BUS_MASTER" \in dev[TheDev].command) <=> loc["bus"].mask)

C5_IntDisableKept ==
    (/\ dev[TheDev].mode = "LEGACY"
     /\ lock["slot0"] = NULL
     /\ dev[TheDev].handlers[1].masked)
        => "INT_DISABLE" \in dev[TheDev].command

C5_CmdRegRmwUnderLock ==
    /\ C5_RmwHoldsCmdRegLock
    /\ C5_OtherWriterUpdateKept
    /\ C5_IntDisableKept

(***************************************************************************)
C6_VectorUnmaskedIffListNonEmpty ==
    \A i \in Insts :
        sh[i].live => ((~vec[sh[i].irq_id].masked) <=> (sh[i].list # <<>>))

\* Two devices were attached to one dispatcher and the first has detached: the
\* second is still in the list and the vector is still unmasked.
C6_Witness ==
    /\ op.name = "set_mode" /\ op.d = "d1"
    /\ dev["d1"].mode = "DISABLED"
    /\ sh["shA"].list = <<"d2">>
    /\ ~vec[17].masked

(***************************************************************************)
(* C7: at the return of every public operation a device's mode is LEGACY   *)
(* if and only if the device is linked in exactly one dispatcher's list,   *)
(* the list of the dispatcher in legacy.shared_handler; no device is in    *)
(* two lists or twice in a list.                                           *)
(***************************************************************************)
C7_LegacyIffLinked ==
    \A d \in Devs :
        /\ (dev[d].mode = "LEGACY") <=> (ListsHolding(d) = {dev[d].shared_handler})
        /\ Cardinality(ListsHolding(d)) <= 1
        /\ \A i \in Insts :
              Cardinality({k \in 1..Len(sh[i].list) : sh[i].list[k] = d}) <= 1
        /\ dbg \notin {185, 206, 636}

\* Both devices are in LEGACY mode, d1 is linked and d2 has left again.
C7_Witness ==
    /\ dev["d1"].mode = "LEGACY" /\ ListsHolding("d1") = {"shA"}
    /\ op.name = "set_mode" /\ op.d = "d2"
    /\ dev["d2"].mode = "DISABLED" /\ dev["d2"].pin # 0 /\ ListsHolding("d2") = {}

(***************************************************************************)
(* C8 (as amended): at the return of every public operation a device's     *)
(* mode is MSI if and only if its MSI block is allocated; set_mode(MSI, n) *)
(* that fails on a device that is not in MSI mode, and set_mode(DISABLED), *)
(* leave no block allocated; no block is allocated over one still held     *)
(* (the DEBUG_ASSERT of line 490 holds).                                   *)
(***************************************************************************)
C8_MsiIffBlockAllocated ==
    /\ \A d \in Devs : (dev[d].mode = "MSI") <=> dev[d].block.allocated
    /\ \A d \in Devs :
          LET w == pcie_set_irq_mode(World, d, "DISABLED", 0, TRUE, TRUE)
          IN ~w.dev[d].block.allocated /\ w.dev[d].mode = "DISABLED"
    /\ \A d \in Devs, n \in ReqIrqs, a \in BOOLEAN, c \in BOOLEAN :
          LET w == pcie_set_irq_mode(World, d, "MSI", n, a, c)
          IN /\ (dev[d].mode # "MSI" /\ w.ret # "NO_ERROR")
                    => ~w.dev[d].block.allocated
             /\ (w.dev[d].mode = "MSI") <=> w.dev[d].block.allocated
             /\ w.dbg # 490
    /\ dbg \notin {490, 440, 517, 645}

\* set_mode(MSI, n) has failed after the platform had granted the block.
C8_Witness ==
    /\ op.name = "set_mode" /\ ret = "ERR_NO_MEMORY"
    /\ dev[op.d].mode = "DISABLED" /\ ~dev[op.d].block.allocated

\* C8 as claimed: every failed set_mode(MSI, n) leaves no block allocated.
C8_Original ==
    /\ \A d \in Devs : (dev[d].mode = "MSI") <=> dev[d].block.allocated
    /\ \A d \in Devs, n \in ReqIrqs, a \in BOOLEAN, c \in BOOLEAN :
          LET w == pcie_set_irq_mode(World, d, "MSI", n, a, c)
          IN w.ret # "NO_ERROR" => ~w.dev[d].block.allocated

(***************************************************************************)
(* C9 (as amended): for every active target mode and every requested_irqs  *)
(* >= 1, set_mode on a device whose mode is not DISABLED fails with        *)
(* BAD_STATE and changes nothing (with requested_irqs == 0 it fails with   *)
(* INVALID_ARGS and changes nothing); after an intervening                 *)
(* set_mode(DISABLED) the same request is not refused with BAD_STATE, and  *)
(* it succeeds when it is a valid request (LEGACY with one IRQ on a device *)
(* with a pin; MSI with at most max_irqs IRQs on an MSI capable device and *)
(* platform) and the platform and the allocator grant the resources.       *)
(***************************************************************************)
ValidRequest(d, mode, n) ==
    \/ mode = "LEGACY" /\ n = 1 /\ dev[d].pin # 0
    \/ /\ mode = "MSI" /\ n >= 1 /\ n <= dev[d].max_irqs
       /\ dev[d].msi_cfg /\ platform.supports_msi

C9_ActiveFromActiveIsBadState ==
    \A d \in Devs :
        dev[d].mode # "DISABLED" =>
            LET w1 == pcie_set_irq_mode(World, d, "DISABLED", 0, TRUE, TRUE)
            IN /\ w1.ret = "NO_ERROR"
               /\ \A mode \in ActiveModes, n \in ReqIrqs :
                    LET w == pcie_set_irq_mode(World, d, mode, n, TRUE, TRUE)
                        w2 == pcie_set_irq_mode(w1, d, mode, n, TRUE, TRUE)
                    IN /\ w.ret = (IF n >= 1 THEN "ERR_BAD_STATE"
                                             ELSE "ERR_INVALID_ARGS")
                       /\ StateUnchanged(w)
                       /\ n >= 1 => w2.ret # "ERR_BAD_STATE"
                       /\ ValidRequest(d, mode, n)
                            => w2.ret = "NO_ERROR" /\ w2.dev[d].mode = mode

\* A set_mode was refused with BAD_STATE on a device in MSI mode with two vectors,
\* which keeps its block.
C9_Witness ==
    /\ op.name = "set_mode" /\ ret = "ERR_BAD_STATE"
    /\ dev[op.d].mode = "MSI" /\ dev[op.d].handler_count = 2
    /\ dev[op.d].block.allocated

\* C9 as claimed: BAD_STATE for every value of requested_irqs, and the same request
\* succeeds after set_mode(DISABLED).
C9_Original ==
    \A d \in Devs, mode \in ActiveModes, n \in ReqIrqs :
        dev[d].mode # "DISABLED" =>
            LET w == pcie_set_irq_mode(World, d, mode, n, TRUE, TRUE)
            IN w.ret = "ERR_BAD_STATE" /\ StateUnchanged(w)

(***************************************************************************)
(* C10: when set_mode(MSI, n) fails after its argument checks (the         *)
(* platform refuses the block, or the handler table cannot be allocated),  *)
(* the device is left in mode DISABLED with handler_count 0, no handler    *)
(* table, no MSI block, no MSI handler registered, ENABLE clear and every  *)
(* PVM bit set, and the error of the failing step is returned.             *)
(***************************************************************************)
C10_FailedEnterMsiUnwinds ==
    \A d \in Devs, n \in ReqIrqs, a \in BOOLEAN, c \in BOOLEAN :
        (dev[d].mode = "DISABLED" /\ ValidRequest(d, "MSI", n)
         /\ (~a \/ (~c /\ n > 1))) =>
            LET w == pcie_set_irq_mode(World, d, "MSI", n, a, c)
            IN /\ w.ret = (IF ~a THEN "ERR_NO_RESOURCES" ELSE "ERR_NO_MEMORY")
               /\ w.dev[d].mode = "DISABLED"
               /\ w.dev[d].handler_count = 0
               /\ w.dev[d].handlers_ptr = NULL /\ w.dev[d].handlers = <<>>
               /\ ~w.dev[d].block.allocated
               /\ w.msiplat[d].handler = {}
               /\ ~w.dev[d].ctrl.enb
               /\ w.dev[d].pvm => w.dev[d].pvm_reg = PvmBits
               /\ w.dbg = 0

\* The handler table could not be allocated: the block has been given back and the
\* PVM register masks every vector.
C10_Witness ==
    /\ op.name = "set_mode" /\ ret = "ERR_NO_MEMORY"
    /\ dev[op.d].mode = "DISABLED" /\ dev[op.d].handler_count = 0
    /\ dev[op.d].pvm /\ dev[op.d].pvm_reg = PvmBits
    /\ ~dev[op.d].ctrl.enb /\ ~dev[op.d].block.allocated

(***************************************************************************)
(* C11: a successful set_mode(MSI, n) performs its effects in this order:  *)
(* the block of n vectors is allocated, the handler table is allocated,    *)
(* mode becomes MSI, ENABLE is written 0, vectors 0..n-1 are masked in the *)
(* PVM register when there is one (the register is then written with all   *)
(* ones), address-low is written, address-high (64 bit devices only),      *)
(* data, MME = ceil(log2 n), the dispatcher is registered for slots        *)
(* 0..n-1, and last ENABLE is written 1.  The platform's own masking of    *)
(* the vectors, which accompanies the PVM writes, is left out of the       *)
(* comparison.                                                             *)
(***************************************************************************)
HardwareLog(w) == SelectSeq(w.log, LAMBDA e : e[1] # "platform_mask")

ExpectedMsiEntry(w, d, n) ==
    LET masks == IF dev[d].pvm
                 THEN [i \in 1..n |-> <<"pvm_mask", i - 1>>]
                      \o << <<"pvm_write_all", 0>> >>
                 ELSE <<>>
        high == IF dev[d].is64bit
                THEN << <<"addr_high", w.dev[d].block.tgt_addr[1]>> >>
                ELSE <<>>
        mme == CHOOSE k \in 0..5 : 2^k >= n /\ (k = 0 \/ 2^(k - 1) < n)
    IN << <<"alloc_block", n>>, <<"alloc_table", n>>, <<"mode_msi", 0>>,
          <<"enable", 0>> >>
       \o masks
       \o << <<"addr_low", w.dev[d].block.tgt_addr[2]>> >>
       \o high
       \o << <<"data", w.dev[d].block.tgt_data>>, <<"mme", mme>> >>
       \o [i \in 1..n |-> <<"register", i - 1>>]
       \o << <<"enable", 1>> >>

C11_MsiEntryOrder ==
    \A d \in Devs, n \in ReqIrqs :
        LET w == pcie_set_irq_mode(World, d, "MSI", n, TRUE, TRUE)
        IN w.ret = "NO_ERROR"
              => /\ w.dev[d].block.num_irq = n
                 /\ HardwareLog(w) = ExpectedMsiEntry(w, d, n)

\* set_mode(MSI, MaxIrqs) has just succeeded on a 64 bit device with a PVM register.
C11_Witness ==
    /\ op.name = "set_mode"
    /\ ret = "NO_ERROR"
    /\ op.d \in Devs
    /\ dev[op.d].mode = "MSI"
    /\ dev[op.d].handler_count = MaxIrqs
    /\ dev[op.d].pvm /\ dev[op.d].is64bit
    /\ dev[op.d].ctrl.enb


\* The dispatcher threads and the slot each of them serves.
Dispatchers == MsiThreads \cup {"irq"}
SlotOf(t) == IF t = "irq" THEN 0 ELSE VectorOf(t)

\* Thread t is inside a driver callback.
InCallback(t) == pc[t] = "callback"

\* C12: with dispatchers running concurrently, a callback that is running was
\* entered with the ctx stored by the register_handler call that stored the
\* callback, and it is still the callback and the ctx of its slot: the slot is not
\* changed while its callback runs, so that once register_handler(irq_id, null, _)
\* has returned (the slot's callback is null) the previous callback is not running,
\* and it is not invoked again because a dispatcher enters only the callback it
\* finds in the slot.
C12_CallbackAndCtxAtomic ==
    \A t \in Dispatchers :
        InCallback(t) =>
            LET d == dev[TheDev]
                i == SlotOf(t) + 1
            IN /\ loc[t].handler # NULL
               /\ <<loc[t].handler, loc[t].ctx>> \in ConcRegistrations
               /\ lock[SlotLock(SlotOf(t))] = t
               /\ i <= Len(d.handlers)
               /\ d.handlers[i].handler = loc[t].handler
               /\ d.handlers[i].ctx = loc[t].ctx

\* register_handler(0, null, _) is replacing H2/C2: the callback is already null,
\* the ctx is still C2, and the dispatcher of the slot waits for the slot's lock.
C12_Witness ==
    /\ pc["ctl"] = "reg_ctx"
    /\ loc["ctl"].handler = NULL
    /\ loc["ctl"].k = 0
    /\ dev[TheDev].mode = "MSI"
    /\ dev[TheDev].handlers[1].handler = NULL
    /\ dev[TheDev].handlers[1].ctx = "C2"
    /\ pc["msi0"] = "lock"
    /\ InCallback("msi1")

\* The locks by kind, and their place in the hierarchy.
Mutexes == {"dev_lock", "dev_lock2", "legacy_irq_list_lock"}
SlotLocks == {"slot0", "slot1"}
Spinlocks == Locks \ Mutexes
HeldBy(t) == {l \in Locks : lock[l] = t}
LockRank(l) ==
    IF l \in {"dev_lock", "dev_lock2"} THEN 1
    ELSE IF l \in {"legacy_irq_list_lock", "list_lock"} THEN 2
    ELSE 3

\* Thread t may take lock l given the locks it holds.
AcquireInOrder(t, l) ==
    /\ \A h \in HeldBy(t) : LockRank(h) < LockRank(l)
    /\ l \in Mutexes => (HeldBy(t) \cap Spinlocks = {} /\ t \notin Dispatchers)
    /\ l = "list_lock" => HeldBy(t) \cap SlotLocks = {}

\* The lock thread t is about to take and may have to wait for.
WaitsFor(t) ==
    CASE t = "ctl" /\ pc[t] \in {"add_lock", "remove_lock"} -> "list_lock"
      [] t = "ctl" /\ pc[t] = "legacy_lock" -> "slot0"
      [] t = "ctl" /\ pc[t] \in {"reg_lock", "msi_lock"} -> SlotLock(loc[t].k)
      [] t = "irq" /\ pc[t] = "list_lock" -> "list_lock"
      [] t = "irq" /\ pc[t] = "slot_lock" /\ dev[loc[t].dev].handlers_ptr # NULL
            -> "slot0"
      [] t \in MsiThreads /\ pc[t] = "lock" -> SlotLock(VectorOf(t))
      [] t = "scan" /\ pc[t] = "find_lock" -> "legacy_irq_list_lock"
      [] t = "stop" /\ pc[t] = "stop_lock" -> "legacy_irq_list_lock"
      [] OTHER -> NULL

\* Every thread of S waits for a lock held by a thread of S.
Deadlocked(S) ==
    /\ S # {}
    /\ \A t \in S : WaitsFor(t) # NULL /\ lock[WaitsFor(t)] \in S

C13_AcquiredInOrder ==
    \A t \in Threads, l \in Locks :
        (lock[l] # t /\ lock'[l] = t) => AcquireInOrder(t, l)

C13_SiblingsNotBothHeld ==
    \A t \in Threads : ~({"legacy_irq_list_lock", "list_lock"} \subseteq HeldBy(t))

C13_NoDeadlock == \A S \in SUBSET Threads : ~Deadlocked(S)

\* C13: in every interleaving of control-plane operations, registry operations
\* and dispatches each lock is acquired in the order dev_lock, then
\* legacy_irq_list_lock or list_lock, then a slot's lock: a mutex is never acquired
\* with a spinlock held or by a dispatcher, list_lock never with a slot's lock
\* held, legacy_irq_list_lock and list_lock are never held by one thread at the
\* same time, and no set of threads waits for locks held within the set.
C13_LockOrder ==
    /\ [][C13_AcquiredInOrder]_vars
    /\ [](C13_SiblingsNotBothHeld /\ C13_NoDeadlock)

\* The dispatcher holds list_lock and waits for the slot's lock, which the control
\* plane holds under dev_lock, while the scan holds its dev_lock and waits for the
\* registry, which the shutdown holds.
C13_Witness ==
    /\ HeldBy("irq") = {"list_lock"}
    /\ WaitsFor("irq") = "slot0"
    /\ HeldBy("ctl") = {"dev_lock", "slot0"}
    /\ HeldBy("scan") = {"dev_lock2"}
    /\ WaitsFor("scan") = "legacy_irq_list_lock"
    /\ HeldBy("stop") = {"legacy_irq_list_lock"}

\* C14: for a LEGACY-mode device whose slot 0 has a callback, whenever an
\* operation or a dispatch pass has returned, the slot's masked flag is true if and
\* only if INT_DISABLE is set in the device's command register.
C14_MaskedIffIntDisable ==
    \A d \in Devs :
        (dev[d].mode = "LEGACY" /\ 1 \in RegisteredSlots(d))
            => (dev[d].handlers[1].masked <=> "INT_DISABLE" \in dev[d].command)

\* The operation was refused with BAD_STATE: it changed nothing, wrote no result
\* and ran into no assertion.
RefusedBadState(w) ==
    /\ w.ret = "ERR_BAD_STATE"
    /\ StateUnchanged(w)
    /\ w.out = NULL
    /\ w.dbg = 0

\* query_capabilities, get_mode, register_handler and unmask are refused on device d.
C15_OthersRefused(d) ==
    /\ \A mode \in Modes :
          RefusedBadState(pcie_query_irq_mode_capabilities(World, d, mode, TRUE))
    /\ RefusedBadState(pcie_get_irq_mode(World, d, TRUE))
    /\ \A irq_id \in 0..MaxIrqs, r \in Registrations :
          RefusedBadState(pcie_register_irq_handler(World, d, irq_id, r[1], r[2]))
    /\ \A irq_id \in 0..MaxIrqs :
          RefusedBadState(pcie_mask_unmask_irq(World, d, irq_id, FALSE))

HasMaskMechanism(d) ==
    dev[d].mode = "LEGACY"
    \/ (dev[d].mode = "MSI" /\ (dev[d].pvm \/ platform.supports_msi_masking))

\* C16: for a plugged-out device in an active mode and any irq_id < handler_count,
\* mask_unmask(irq_id, false) fails with BAD_STATE leaving the slot unchanged, and
\* mask_unmask(irq_id, true) succeeds, no assertion of the operation failing, and
\* leaves the slot masked when a mask mechanism exists.
C16_PluggedOutMaskSucceeds ==
    \A d \in Devs :
        (~dev[d].plugged_in /\ dev[d].mode \in ActiveModes) =>
            \A irq_id \in 0..(dev[d].handler_count - 1) :
                LET u == pcie_mask_unmask_irq(World, d, irq_id, FALSE)
                    m == pcie_mask_unmask_irq(World, d, irq_id, TRUE)
                IN /\ RefusedBadState(u)
                   /\ HasMaskMechanism(d) =>
                         /\ m.ret = "NO_ERROR"
                         /\ Slot(m, d, irq_id).masked
                         /\ m.dbg = 0

\* query_capabilities(MSI_X) on a usable device returns NOT_SUPPORTED and reports
\* no capability, and no device is in mode MSI_X.
C17_QueryAndReachability ==
    \A d \in Devs :
        /\ dev[d].mode # "MSI_X"
        /\ Usable(World, d) =>
              LET q == pcie_query_irq_mode_capabilities(World, d, "MSI_X", TRUE)
              IN q.ret = "ERR_NOT_SUPPORTED" /\ q.out = ZeroCaps /\ StateUnchanged(q)

\* C17 (amended): on a usable device query_capabilities(MSI_X) returns
\* NOT_SUPPORTED; set_mode(MSI_X, n) returns INVALID_ARGS when n is 0, else
\* BAD_STATE when the device is not in mode DISABLED, else NOT_SUPPORTED, and
\* changes no state; mode MSI_X is never reached, so that no mask_unmask runs in it.
C17_MsiXNotSupported ==
    /\ C17_QueryAndReachability
    /\ \A d \in Devs, n \in ReqIrqs :
          Usable(World, d) =>
              LET w == pcie_set_irq_mode(World, d, "MSI_X", n, TRUE, TRUE)
              IN /\ StateUnchanged(w)
                 /\ w.ret = IF n = 0 THEN "ERR_INVALID_ARGS"
                            ELSE IF dev[d].mode # "DISABLED" THEN "ERR_BAD_STATE"
                            ELSE "ERR_NOT_SUPPORTED"

\* A query was answered NOT_SUPPORTED for a device in MSI mode that has a pin and
\* an MSI capability the platform supports: the query named MSI_X.
C17_Witness ==
    /\ op.name = "query_capabilities" /\ ret = "ERR_NOT_SUPPORTED"
    /\ dev[op.d].mode = "MSI"
    /\ dev[op.d].pin # 0 /\ dev[op.d].msi_cfg /\ platform.supports_msi
    /\ \A mode \in Modes \ {"MSI_X"} :
          pcie_query_irq_mode_capabilities(World, op.d, mode, TRUE).ret
              # "ERR_NOT_SUPPORTED"

\* C17 as claimed: NOT_SUPPORTED for every n and from every current mode.
C17_Original ==
    /\ C17_QueryAndReachability
    /\ \A d \in Devs, n \in ReqIrqs :
          Usable(World, d) =>
              pcie_set_irq_mode(World, d, "MSI_X", n, TRUE, TRUE).ret
                  = "ERR_NOT_SUPPORTED"

\* C18: a successful register_handler(irq_id, cb, ctx) changes
\* registered_handler_count by +1 exactly when the slot's callback goes from null
\* to non-null, by -1 exactly when it goes from non-null to null and by 0
\* otherwise; it stores cb, and ctx as null whenever cb is null; it changes no
\* other slot, no masked flag, not the mode and nothing outside the device's
\* handler table and count.
C18_RegisterBookkeeping ==
    \A d \in Devs, irq_id \in 0..MaxIrqs, r \in Registrations :
        LET w == pcie_register_irq_handler(World, d, irq_id, r[1], r[2])
            old == dev[d].handlers[irq_id + 1]
            new == w.dev[d].handlers[irq_id + 1]
            delta == w.dev[d].registered_handler_count
                       - dev[d].registered_handler_count
        IN w.ret = "NO_ERROR" =>
              /\ irq_id < dev[d].handler_count
              /\ delta = (IF old.handler = NULL /\ r[1] # NULL THEN 1
                          ELSE IF old.handler # NULL /\ r[1] = NULL THEN 0 - 1
                          ELSE 0)
              /\ new = [old EXCEPT !.handler = r[1],
                                   !.ctx = IF r[1] = NULL THEN NULL ELSE r[2]]
              /\ w.dev = [dev EXCEPT ![d].handlers[irq_id + 1] = new,
                                     ![d].registered_handler_count = @ + delta]
              /\ w.sh = sh /\ w.vec = vec /\ w.msiplat = msiplat
              /\ w.legacy_irq_list = legacy_irq_list /\ w.platform = platform

\* A registration has returned on an MSI device with two slots of which slot 0
\* holds H2/C2 and is masked, and slot 1 holds nothing.
C18_Witness ==
    /\ op.name = "register_handler" /\ ret = "NO_ERROR"
    /\ dev[op.d].mode = "MSI" /\ dev[op.d].handler_count = 2
    /\ dev[op.d].handlers[1].handler = "H2" /\ dev[op.d].handlers[1].ctx = "C2"
    /\ dev[op.d].handlers[1].masked
    /\ dev[op.d].handlers[2].handler = NULL /\ dev[op.d].handlers[2].ctx = NULL
    /\ dev[op.d].registered_handler_count = 1

\* C19: in any active mode, mask_unmask(irq_id, false) on a slot whose callback is
\* null fails with BAD_STATE and leaves the slot's masked flag and the hardware
\* mask bits (INT_DISABLE, the PVM bit, the platform's mask) unchanged.
C19_UnmaskWithoutCallback ==
    \A d \in Devs :
        dev[d].mode \in ActiveModes =>
            \A irq_id \in 0..(dev[d].handler_count - 1) :
                dev[d].handlers[irq_id + 1].handler = NULL =>
                    LET w == pcie_mask_unmask_irq(World, d, irq_id, FALSE)
                    IN /\ w.ret = "ERR_BAD_STATE"
                       /\ w.dev[d].handlers = dev[d].handlers
                       /\ w.dev[d].command = dev[d].command
                       /\ w.dev[d].pvm_reg = dev[d].pvm_reg
                       /\ w.msiplat = msiplat
                       /\ StateUnchanged(w)

\* An unmask was refused on an MSI device with a PVM register none of whose slots
\* has a callback; slot 0 is masked in the flag and in the register.
C19_Witness ==
    /\ op.name = "mask_unmask" /\ ret = "ERR_BAD_STATE"
    /\ dev[op.d].mode = "MSI" /\ dev[op.d].pvm
    /\ RegisteredSlots(op.d) = {}
    /\ dev[op.d].handlers[1].masked
    /\ 0 \in dev[op.d].pvm_reg

\* Device d is in MSI mode and neither it nor the platform can mask a vector.
MsiWithoutMasking(d) ==
    dev[d].mode = "MSI" /\ ~dev[d].pvm /\ ~platform.supports_msi_masking

\* C20: for an MSI-mode device without a PVM mask register on a platform that does
\* not support MSI masking, mask_unmask(irq_id, true) returns NOT_SUPPORTED and
\* changes nothing, mask_unmask(irq_id, false) on a slot with a registered handler
\* succeeds, every slot's masked flag is false, and the assertion of the MSI
\* dispatcher that the slot is not masked (line 399) has not failed and does not
\* fail on any vector of the block.
C20_NoMaskMechanism ==
    \A d \in Devs :
        MsiWithoutMasking(d) =>
            /\ dbg # 399
            /\ \A irq_id \in 0..(dev[d].handler_count - 1) :
                  LET m == pcie_mask_unmask_irq(World, d, irq_id, TRUE)
                      u == pcie_mask_unmask_irq(World, d, irq_id, FALSE)
                  IN /\ ~dev[d].handlers[irq_id + 1].masked
                     /\ m.ret = "ERR_NOT_SUPPORTED" /\ StateUnchanged(m)
                     /\ dev[d].handlers[irq_id + 1].handler # NULL =>
                           /\ u.ret = "NO_ERROR"
                           /\ ~u.dev[d].handlers[irq_id + 1].masked
                     /\ \A irq_ret \in IrqRets :
                           pcie_msi_irq_handler(World, d, irq_id, irq_ret).dbg # 399

\* A mask request was refused with NOT_SUPPORTED on such a device, which has two
\* vectors and a callback in slot 1.
C20_Witness ==
    /\ op.name = "mask_unmask" /\ ret = "ERR_NOT_SUPPORTED"
    /\ MsiWithoutMasking(op.d)
    /\ dev[op.d].handler_count = 2
    /\ dev[op.d].handlers[2].handler # NULL

\* C21: in an active mode, register_handler and mask_unmask called with
\* irq_id >= handler_count (irq_id == handler_count included) return INVALID_ARGS
\* and leave the handler table, registered_handler_count and all mask state
\* (the whole device and platform state) unchanged.
C21_OutOfRangeIrqId ==
    \A d \in Devs :
        dev[d].mode \in ActiveModes =>
            \A irq_id \in dev[d].handler_count..(MaxIrqs + 1) :
                /\ \A r \in Registrations :
                      LET w == pcie_register_irq_handler(World, d, irq_id, r[1], r[2])
                      IN w.ret = "ERR_INVALID_ARGS" /\ StateUnchanged(w)
                /\ \A mask \in BOOLEAN :
                      LET w == pcie_mask_unmask_irq(World, d, irq_id, mask)
                      IN w.ret = "ERR_INVALID_ARGS" /\ StateUnchanged(w)

\* A mask_unmask was refused with INVALID_ARGS on a legacy device whose only slot
\* holds a callback and is not masked.
C21_Witness ==
    /\ op.name = "mask_unmask" /\ ret = "ERR_INVALID_ARGS"
    /\ dev[op.d].mode = "LEGACY" /\ dev[op.d].handler_count = 1
    /\ dev[op.d].handlers[1].handler # NULL
    /\ ~dev[op.d].handlers[1].masked
    /\ "INT_DISABLE" \notin dev[op.d].command

\* A request for an active mode that the device or the platform cannot serve.
Unsupported(d, mode, n) ==
    \/ mode = "LEGACY" /\ (dev[d].pin = 0 \/ n > 1)
    \/ mode = "MSI" /\ (~dev[d].msi_cfg \/ ~platform.supports_msi
                          \/ n > dev[d].max_irqs)

\* C22: from mode DISABLED, set_mode(LEGACY, n >= 1) with pin == 0 or n > 1, and
\* set_mode(MSI, n >= 1) with no MSI capability, a platform without MSI or
\* n > msi.max_irqs, return NOT_SUPPORTED and leave the whole state unchanged:
\* the mode stays DISABLED, there is no handler table, no block is asked of the
\* platform, nothing is written to config space and no dispatcher is attached.
C22_UnsupportedRequestRefused ==
    \A d \in Devs, mode \in {"LEGACY", "MSI"}, n \in 1..(MaxIrqs + 1),
       alloc_ok \in BOOLEAN, calloc_ok \in BOOLEAN :
        dev[d].mode = "DISABLED" /\ Unsupported(d, mode, n) =>
            LET w == pcie_set_irq_mode(World, d, mode, n, alloc_ok, calloc_ok)
            IN /\ w.ret = "ERR_NOT_SUPPORTED"
               /\ StateUnchanged(w)
               /\ w.log = <<>>
               /\ w.dev[d].mode = "DISABLED"
               /\ w.dev[d].handlers_ptr = NULL /\ w.dev[d].handler_count = 0
               /\ ~w.dev[d].block.allocated
               /\ ~InList(w, d)

\* A set_mode was refused with NOT_SUPPORTED on a device with an MSI capability
\* and a pin, in mode DISABLED, on a platform without MSI; the device has been in
\* a mode before (its counter of registered handlers is not zero).
C22_Witness ==
    /\ op.name = "set_mode" /\ ret = "ERR_NOT_SUPPORTED"
    /\ dev[op.d].mode = "DISABLED"
    /\ dev[op.d].msi_cfg /\ dev[op.d].pin # 0 /\ ~platform.supports_msi
    /\ dev[op.d].registered_handler_count > 0

\* World w1 and world w2 hold the same devices, dispatchers and platform state.
SameState(w1, w2) ==
    /\ w1.dev = w2.dev
    /\ w1.sh = w2.sh
    /\ w1.legacy_irq_list = w2.legacy_irq_list
    /\ w1.vec = w2.vec
    /\ w1.msiplat = w2.msiplat
    /\ w1.platform = w2.platform

\* The world an operation has returned into, as the next operation finds it.
Returned(w) == [w EXCEPT !.dbg = 0, !.log = <<>>, !.calls = <<>>, !.out = NULL]

\* set_mode(DISABLED) applied to the current state yields mode DISABLED and
\* returns NO_ERROR, and a second application returns NO_ERROR, performs no
\* effect and leaves the state of the first.
DisableTwice(d) ==
    LET w1 == pcie_set_irq_mode(World, d, "DISABLED", 0, TRUE, TRUE)
        w2 == pcie_set_irq_mode(Returned(w1), d, "DISABLED", 0, TRUE, TRUE)
    IN /\ w1.ret = "NO_ERROR" /\ w1.dev[d].mode = "DISABLED"
       /\ w2.ret = "NO_ERROR" /\ w2.dbg = 0 /\ w2.log = <<>>
       /\ SameState(w1, w2)

\* C23 (stated as claimed; refuted by the code): from any reachable state
\* set_mode(DISABLED) succeeds, as the release build and as the debug build run
\* it, and yields mode DISABLED, and a second application succeeds and leaves
\* the state produced by the first unchanged.
C23_DisableIdempotent ==
    \A d \in Devs :
        /\ DisableTwice(d)
        /\ pcie_set_irq_mode(World, d, "DISABLED", 0, TRUE, TRUE).dbg = 0

\* What a driver and the hardware can observe of device d in world w.
Observation(w, d) ==
    [mode |-> w.dev[d].mode,
     handler_count |-> w.dev[d].handler_count,
     registered_handler_count |-> w.dev[d].registered_handler_count,
     callbacks |-> [i \in 1..Len(w.dev[d].handlers) |-> w.dev[d].handlers[i].handler],
     masked |-> [i \in 1..Len(w.dev[d].handlers) |-> w.dev[d].handlers[i].masked],
     allocated |-> w.dev[d].block.allocated,
     lists |-> [i \in Insts |-> w.sh[i].list],
     command |-> w.dev[d].command,
     pvm_reg |-> w.dev[d].pvm_reg,
     enb |-> w.dev[d].ctrl.enb,
     vec |-> w.vec,
     msiplat |-> w.msiplat]

\* C24: for every valid (mode, n) and every reachable state with the device in
\* mode DISABLED, set_mode(mode, n); set_mode(DISABLED); set_mode(mode, n) all
\* succeed and reach a state equal to the state a single set_mode(mode, n)
\* reaches: same mode, handler_count, registered_handler_count, every slot with a
\* null callback and the same masked flag, same block allocation, same dispatcher
\* lists and same device and platform mask state.  From a state whose counter of
\* registered handlers is zero no assertion of the three operations fails.
C24_ReenterEqualsEnter ==
    \A d \in Devs, mode \in {"LEGACY", "MSI"}, n \in 1..MaxIrqs :
        dev[d].mode = "DISABLED" /\ ValidRequest(d, mode, n) =>
            LET a == pcie_set_irq_mode(World, d, mode, n, TRUE, TRUE)
                b == pcie_set_irq_mode(Returned(a), d, "DISABLED", 0, TRUE, TRUE)
                c == pcie_set_irq_mode(Returned(b), d, mode, n, TRUE, TRUE)
            IN /\ a.ret = "NO_ERROR" /\ b.ret = "NO_ERROR" /\ c.ret = "NO_ERROR"
               /\ Observation(c, d) = Observation(a, d)
               /\ SameState(a, c)
               /\ c.dev[d].mode = mode /\ c.dev[d].handler_count = n
               /\ \A i \in 1..n : c.dev[d].handlers[i].handler = NULL
               /\ b.dev[d].mode = "DISABLED"
               /\ dev[d].registered_handler_count = 0
                     => a.dbg = 0 /\ b.dbg = 0 /\ c.dbg = 0

\* A set_mode has put a device that has been in a mode before (its counter of
\* registered handlers is still one) back into MSI mode with two vectors: the
\* slots are empty, masked in the flag and in the PVM register.
C24_Witness ==
    /\ op.name = "set_mode" /\ ret = "NO_ERROR"
    /\ dev[op.d].mode = "MSI" /\ dev[op.d].handler_count = 2
    /\ dev[op.d].registered_handler_count = 1
    /\ RegisteredSlots(op.d) = {}
    /\ dev[op.d].pvm /\ dev[op.d].pvm_reg = PvmBits
    /\ \A i \in 1..2 : dev[op.d].handlers[i].masked

\* The world after mask_unmask(irq_id, true) followed by mask_unmask(irq_id, false).
MaskThenUnmask(d, irq_id) ==
    pcie_mask_unmask_irq(Returned(pcie_mask_unmask_irq(World, d, irq_id, TRUE)),
                         d, irq_id, FALSE)

\* Slot irq_id of device d holds a callback in a mode in which it can be masked.
MaskableRegistered(d, irq_id) ==
    /\ HasMaskMechanism(d)
    /\ irq_id < dev[d].handler_count
    /\ dev[d].handlers[irq_id + 1].handler # NULL

\* C25 (amended): for every slot with a registered handler in an active mode where
\* masking is supported, mask_unmask(irq, true) followed by mask_unmask(irq,
\* false) both succeed and leave the slot's masked flag false (and the device's
\* and the platform's mask bit of the slot clear) whatever it was before: the
\* flag equals its value before the pair exactly when the slot was unmasked
\* before, and nothing but the slot's mask state is changed.
C25_MaskThenUnmaskUnmasks ==
    \A d \in Devs, irq_id \in 0..(MaxIrqs - 1) :
        MaskableRegistered(d, irq_id) =>
            LET m == pcie_mask_unmask_irq(World, d, irq_id, TRUE)
                u == MaskThenUnmask(d, irq_id)
                prior == dev[d].handlers[irq_id + 1].masked
            IN /\ m.ret = "NO_ERROR" /\ m.dev[d].handlers[irq_id + 1].masked
               /\ u.ret = "NO_ERROR" /\ ~u.dev[d].handlers[irq_id + 1].masked
               /\ (u.dev[d].handlers[irq_id + 1].masked = prior) <=> ~prior
               /\ dev[d].mode = "LEGACY" => "INT_DISABLE" \notin u.dev[d].command
               /\ dev[d].mode = "MSI" =>
                     /\ dev[d].pvm => irq_id \notin u.dev[d].pvm_reg
                     /\ platform.supports_msi_masking
                           => irq_id \notin u.msiplat[d].masked
               /\ ~prior /\ (dev[d].mode = "LEGACY"
                                => "INT_DISABLE" \notin dev[d].command)
                          /\ (dev[d].mode = "MSI" /\ dev[d].pvm
                                => irq_id \notin dev[d].pvm_reg)
                     => SameState(u, World)

\* An unmask has returned NO_ERROR on the only slot of an MSI device with a PVM
\* register: the slot holds a callback, its flag is false and its PVM bit is
\* clear while the bits the entry into MSI mode set are still set, so the slot
\* was masked when the unmask came.
C25_Witness ==
    /\ op.name = "mask_unmask" /\ ret = "NO_ERROR"
    /\ dev[op.d].mode = "MSI" /\ dev[op.d].pvm /\ dev[op.d].handler_count = 1
    /\ dev[op.d].handlers[1].handler # NULL
    /\ ~dev[op.d].handlers[1].masked
    /\ dev[op.d].pvm_reg = PvmBits \ {0}

\* C25 as claimed: for every prior value of the flag the pair leaves the flag
\* equal to its value before the pair.
C25_Original ==
    \A d \in Devs, irq_id \in 0..(MaxIrqs - 1) :
        MaskableRegistered(d, irq_id) =>
            MaskThenUnmask(d, irq_id).dev[d].handlers[irq_id + 1].masked
                = dev[d].handlers[irq_id + 1].masked

\* The devices of a list that a pass serves: asserting, INT_DISABLE clear.
Serviced(d, sts) == d \in sts /\ "INT_DISABLE" \notin dev[d].command

\* The serviced devices whose callback a pass invokes.
Invoked(d, sts) ==
    /\ Serviced(d, sts)
    /\ dev[d].handlers[1].handler # NULL
    /\ ~dev[d].handlers[1].masked

\* The callbacks a pass over list makes, in order.
RECURSIVE ExpectedCalls(_, _)
ExpectedCalls(list, sts) ==
    IF list = <<>>
    THEN <<>>
    ELSE (IF Invoked(Head(list), sts)
          THEN <<[dev |-> Head(list), irq_id |-> 0,
                  handler |-> dev[Head(list)].handlers[1].handler,
                  ctx |-> dev[Head(list)].handlers[1].ctx]>>
          ELSE <<>>) \o ExpectedCalls(Tail(list), sts)

\* The passes of the dispatchers that have devices: the instance, the devices of
\* its list that assert their pin, what the callback of each device of the list
\* returns (a pass reads no other device).
Passes ==
    UNION {[i : {i},
            sts : SUBSET {d \in Devs : ListedBy(i, d)},
            hret : {h \in [Devs -> IrqRets] :
                       \A d \in Devs : ~ListedBy(i, d) => h[d] = {}}] :
              i \in {j \in Insts : sh[j].live /\ sh[j].list # <<>>}}

\* C26: in one legacy dispatch pass over a non-empty list the callbacks invoked
\* are, in list-insertion order and once each with irq_id 0 and the slot's ctx,
\* those of the devices that assert INT_STATUS with INT_DISABLE clear, a callback
\* installed and the slot not masked; such an asserting device gets INT_DISABLE
\* set and masked true if and only if its callback returned MASK, it has no
\* callback, or its slot was already masked; every other device is untouched,
\* and so are the dispatchers and the platform.
C26_LegacyDispatchPass ==
    \A p \in Passes :
        LET w == SharedLegacyIrqHandler_Handler(World, p.i, p.sts, p.hret)
            list == sh[p.i].list
            InPass(d) == \E k \in 1..Len(list) : list[k] = d
            Forced(d) == \/ Invoked(d, p.sts) /\ "MASK" \in p.hret[d]
                         \/ dev[d].handlers[1].handler = NULL
                         \/ dev[d].handlers[1].masked
        IN /\ w.calls = ExpectedCalls(list, p.sts)
           /\ \A d \in Devs :
                 IF InPass(d) /\ Serviced(d, p.sts)
                 THEN /\ ("INT_DISABLE" \in w.dev[d].command) <=> Forced(d)
                      /\ w.dev[d].handlers[1].masked <=> Forced(d)
                      /\ w.dev[d] =
                            [dev[d] EXCEPT !.command = w.dev[d].command,
                                           !.handlers[1].masked =
                                               w.dev[d].handlers[1].masked]
                 ELSE w.dev[d] = dev[d]
           /\ w.sh = sh /\ w.vec = vec /\ w.msiplat = msiplat
           /\ w.legacy_irq_list = legacy_irq_list

\* A pass over the list <<d2, d1>> has invoked the callbacks of both devices, d2
\* first; d2's returned MASK and d2 is masked, d1 is not.
C26_Witness ==
    /\ op.name = "legacy_irq"
    /\ sh[op.inst].list = <<"d2", "d1">>
    /\ Len(calls) = 2 /\ calls[1].dev = "d2" /\ calls[2].dev = "d1"
    /\ calls[1].irq_id = 0 /\ calls[2].irq_id = 0
    /\ dev["d2"].handlers[1].masked /\ "INT_DISABLE" \in dev["d2"].command
    /\ ~dev["d1"].handlers[1].masked /\ "INT_DISABLE" \notin dev["d1"].command

\* C27: a legacy dispatch pass over a non-empty list returns RESCHEDULE if and
\* only if a callback invoked during the pass returned a value with the RESCHED
\* bit, and NO_RESCHEDULE otherwise; what a callback that is not invoked (no
\* callback, slot masked, device not asserting) would have returned has no part
\* in the result.
C27_RescheduleIffRequested ==
    \A p \in Passes :
        LET w == SharedLegacyIrqHandler_Handler(World, p.i, p.sts, p.hret)
            list == sh[p.i].list
            requested == \E k \in 1..Len(list) :
                            /\ Invoked(list[k], p.sts)
                            /\ "RESCHED" \in p.hret[list[k]]
        IN /\ w.ret \in {"INT_RESCHEDULE", "INT_NO_RESCHEDULE"}
           /\ (w.ret = "INT_RESCHEDULE") <=> requested
           /\ (\A k \in 1..Len(w.calls) : "RESCHED" \notin p.hret[w.calls[k].dev])
                 => w.ret = "INT_NO_RESCHEDULE"

\* A pass that invoked the callbacks of two devices has returned RESCHEDULE, and
\* the device served last is not masked.
C27_Witness ==
    /\ op.name = "legacy_irq" /\ ret = "INT_RESCHEDULE"
    /\ Len(calls) = 2 /\ calls[1].dev # calls[2].dev
    /\ Len(sh[op.inst].list) = 2
    /\ ~dev[calls[2].dev].handlers[1].masked

\* The hardware effects of masking (unmasking) vector irq_id of device d: the PVM
\* register first, the platform second, each where it exists.
MaskEffects(d, irq_id, mask) ==
    (IF dev[d].pvm
     THEN <<<<IF mask THEN "pvm_mask" ELSE "pvm_unmask", irq_id>>>> ELSE <<>>)
    \o (IF platform.supports_msi_masking
        THEN <<<<IF mask THEN "platform_mask" ELSE "platform_unmask", irq_id>>>>
        ELSE <<>>)

\* C28: for an MSI dispatch on slot i where masking is supported, the vector is
\* masked first; the callback is invoked, once, with the device, irq id i and
\* the registered ctx, if and only if the slot was not masked on entry and a
\* callback is installed; after the dispatch the slot is unmasked (flag, PVM bit
\* and platform mask) if and only if the callback was invoked and did not return
\* MASK; the dispatch returns RESCHEDULE if and only if the callback was invoked
\* and returned RESCHED; nothing but the slot's mask state changes.
C28_MsiDispatch ==
    \A d \in Devs, irq_id \in 0..(MaxIrqs - 1), irq_ret \in IrqRets :
        dev[d].mode = "MSI" /\ irq_id < dev[d].handler_count /\ HasMaskMechanism(d) =>
            LET w == pcie_msi_irq_handler(World, d, irq_id, irq_ret)
                old == dev[d].handlers[irq_id + 1]
                new == w.dev[d].handlers[irq_id + 1]
                invoked == ~old.masked /\ old.handler # NULL
                unmasked == invoked /\ "MASK" \notin irq_ret
            IN /\ w.calls = IF invoked
                            THEN <<[dev |-> d, irq_id |-> irq_id,
                                    handler |-> old.handler, ctx |-> old.ctx]>>
                            ELSE <<>>
               /\ w.log = MaskEffects(d, irq_id, TRUE)
                           \o (IF invoked THEN <<<<"callback", irq_id>>>> ELSE <<>>)
                           \o (IF unmasked THEN MaskEffects(d, irq_id, FALSE)
                               ELSE <<>>)
               /\ ~new.masked <=> unmasked
               /\ dev[d].pvm => (irq_id \notin w.dev[d].pvm_reg <=> unmasked)
               /\ platform.supports_msi_masking
                     => (irq_id \notin w.msiplat[d].masked <=> unmasked)
               /\ (w.ret = "INT_RESCHEDULE") <=> (invoked /\ "RESCHED" \in irq_ret)
               /\ w.ret \in {"INT_RESCHEDULE", "INT_NO_RESCHEDULE"}
               /\ new = [old EXCEPT !.masked = new.masked]
               /\ w.dev = [dev EXCEPT ![d].handlers[irq_id + 1] = new,
                                      ![d].pvm_reg = w.dev[d].pvm_reg]
               /\ w.msiplat = [msiplat EXCEPT ![d].masked = w.msiplat[d].masked]
               /\ w.sh = sh /\ w.vec = vec /\ w.dbg = 0

\* A dispatch on vector 1 of an MSI device with a PVM register has invoked the
\* callback H2 with ctx C2 and returned RESCHEDULE; the slot is unmasked again,
\* slot 0 is still masked.
C28_Witness ==
    /\ op.name = "msi_irq" /\ ret = "INT_RESCHEDULE"
    /\ dev[op.d].mode = "MSI" /\ dev[op.d].pvm
    /\ calls = <<[dev |-> op.d, irq_id |-> 1, handler |-> "H2", ctx |-> "C2"]>>
    /\ ~dev[op.d].handlers[2].masked /\ 1 \notin dev[op.d].pvm_reg
    /\ dev[op.d].handlers[1].masked /\ 0 \in dev[op.d].pvm_reg

\* C29 (stated as claimed; refuted by the code): at every moment at most one
\* live shared legacy dispatcher exists per system vector id, also after
\* ShutdownIrqs has cleared the registry while devices still hold references to
\* a dispatcher, and the platform's handler of a vector belongs to the dispatcher
\* the devices attached to that vector are linked into.
C29_OneDispatcherPerVector ==
    /\ \A i \in Insts, j \in Insts :
          sh[i].live /\ sh[j].live /\ sh[i].irq_id = sh[j].irq_id => i = j
    /\ \A i \in Insts :
          sh[i].live /\ sh[i].list # <<>> => vec[sh[i].irq_id].handler = i

\* While the MSI enable bit of device d is 1 the device is in MSI mode with its
\* table allocated and the MSI dispatcher registered for every slot.
MsiEnabledIsDispatched(d) ==
    dev[d].ctrl.enb =>
        /\ dev[d].mode = "MSI" /\ dev[d].handlers_ptr # NULL
        /\ \A i \in 0..(dev[d].handler_count - 1) : i \in msiplat[d].handler

\* While INT_DISABLE of device d is clear the device is linked in the list of its
\* shared dispatcher and its handler slot is allocated.
LegacyEnabledIsDispatched(d) ==
    "INT_DISABLE" \notin dev[d].command =>
        /\ dev[d].shared_handler # NULL
        /\ \E k \in 1..Len(sh[dev[d].shared_handler].list) :
              sh[dev[d].shared_handler].list[k] = d
        /\ dev[d].handlers_ptr # NULL /\ dev[d].handler_count >= 1

\* C30 (stated as claimed; refuted by the code): in every reachable state, the
\* states between the steps of set_mode included, an interrupt a device can
\* raise is masked or reaches the dispatcher of the current mode with a valid
\* slot: whenever the MSI enable bit is 1 the MSI dispatcher is registered for
\* every slot in [0, handler_count), and whenever INT_DISABLE is clear the device
\* is linked in its shared dispatcher's list with its handler slot allocated.
C30_RaisableInterruptIsDispatched ==
    \A d \in Devs : MsiEnabledIsDispatched(d) /\ LegacyEnabledIsDispatched(d)

(***************************************************************************)
(* C31: on a plugged-in, enabled device query_capabilities changes no      *)
(* state and returns, whatever the platform: for LEGACY, NO_ERROR with     *)
(* max_irqs 1 and per-vector masking true when pin != 0, else              *)
(* NOT_SUPPORTED; for MSI, NO_ERROR with max_irqs = msi.max_irqs and       *)
(* per-vector masking = (PVM register present or platform masks MSI) when  *)
(* the platform supports MSI and msi.cfg != null, else NOT_SUPPORTED; for  *)
(* MSI_X, NOT_SUPPORTED; for every other mode value, DISABLED included,    *)
(* INVALID_ARGS.  A refusal leaves the capabilities zeroed.                *)
(***************************************************************************)
QueriedModes == Modes \cup {"PCIE_IRQ_MODE_COUNT"}

ExpectedCaps(p, d, mode) ==
    CASE mode = "LEGACY" /\ dev[d].pin # 0 ->
            [ret |-> "NO_ERROR",
             out |-> [max_irqs |-> 1, per_vector_masking_supported |-> TRUE]]
      [] mode = "MSI" /\ p.supports_msi /\ dev[d].msi_cfg ->
            [ret |-> "NO_ERROR",
             out |-> [max_irqs |-> dev[d].max_irqs,
                      per_vector_masking_supported |->
                          dev[d].pvm \/ p.supports_msi_masking]]
      [] mode \in {"LEGACY", "MSI", "MSI_X"} ->
            [ret |-> "ERR_NOT_SUPPORTED", out |-> ZeroCaps]
      [] OTHER -> [ret |-> "ERR_INVALID_ARGS", out |-> ZeroCaps]

C31_QueryCapabilities ==
    \A d \in Devs, mode \in QueriedModes, p \in Platforms :
        Usable(World, d) =>
            LET w0 == [World EXCEPT !.platform = p]
                q == pcie_query_irq_mode_capabilities(w0, d, mode, TRUE)
            IN /\ q.ret = ExpectedCaps(p, d, mode).ret
               /\ q.out = ExpectedCaps(p, d, mode).out
               /\ q.dbg = 0
               /\ SameState(q, w0)

\* A query has succeeded on a usable device in MSI mode with more than one vector
\* and no PVM register.
C31_Witness ==
    /\ op.name = "query_capabilities" /\ ret = "NO_ERROR"
    /\ Usable(World, op.d)
    /\ dev[op.d].mode = "MSI" /\ dev[op.d].max_irqs > 1 /\ ~dev[op.d].pvm

(***************************************************************************)
(* C32: at the return of every public operation (which is the entry of the *)
(* next), mode LEGACY implies handler_count = 1, pin != 0 and the handler  *)
(* table is the singleton slot; mode MSI implies msi.cfg != null, the      *)
(* block is allocated and 1 <= handler_count <= the block's vector count;  *)
(* the set_mode(MSI, n) that enters MSI leaves handler_count = n, and      *)
(* register_handler, mask_unmask and the MSI dispatcher keep it.           *)
(***************************************************************************)
LegacyBookkeeping(d) ==
    /\ dev[d].handler_count = 1
    /\ dev[d].pin # 0
    /\ dev[d].handlers_ptr = "singleton"
    /\ Len(dev[d].handlers) = 1

MsiBookkeeping(d) ==
    /\ dev[d].msi_cfg
    /\ dev[d].block.allocated
    /\ 1 <= dev[d].handler_count
    /\ dev[d].handler_count <= dev[d].block.num_irq
    /\ Len(dev[d].handlers) = dev[d].handler_count

C32_ModeBookkeeping ==
    \A d \in Devs :
        /\ dev[d].mode = "LEGACY" => LegacyBookkeeping(d)
        /\ dev[d].mode = "MSI" => MsiBookkeeping(d)
        /\ \A n \in ReqIrqs, a \in BOOLEAN, c \in BOOLEAN :
              LET w == pcie_set_irq_mode(World, d, "MSI", n, a, c)
              IN (dev[d].mode # "MSI" /\ w.dev[d].mode = "MSI")
                    => w.ret = "NO_ERROR" /\ w.dev[d].handler_count = n
        /\ dev[d].mode = "MSI" =>
              \A irq_id \in 0..MaxIrqs :
                  /\ \A r \in Registrations :
                        pcie_register_irq_handler(World, d, irq_id, r[1], r[2])
                            .dev[d].handler_count = dev[d].handler_count
                  /\ \A mask \in BOOLEAN :
                        pcie_mask_unmask_irq(World, d, irq_id, mask)
                            .dev[d].handler_count = dev[d].handler_count

\* set_mode(MSI, 2) has returned NO_ERROR: two slots on a block of two vectors.
C32_Witness ==
    /\ op.name = "set_mode" /\ ret = "NO_ERROR"
    /\ dev[op.d].mode = "MSI" /\ dev[op.d].handler_count = 2
    /\ dev[op.d].block.num_irq = 2 /\ dev[op.d].handlers_ptr = "heap"

(***************************************************************************)
(* C33: the handler table is reset only once no dispatcher can reach it.   *)
(* A device whose table is reset (handlers null, handler_count 0) is not   *)
(* in a dispatcher's list, has no MSI vector registered with the platform  *)
(* and holds no MSI block; and under concurrent dispatch, a dispatcher     *)
(* that has a slot of a device in hand (the legacy pass from the read of   *)
(* the device's registers on, the MSI dispatcher from its entry on) finds  *)
(* the table allocated and the slot within handler_count.                  *)
(***************************************************************************)
TableReset(d) == dev[d].handlers_ptr = NULL /\ dev[d].handler_count = 0

\* The positions of the legacy pass at which it holds &dev->irq.handlers[0].
LegacySlotInHand ==
    pc["irq"] \in {"slot_lock", "callback", "force_tmp", "force_read", "force_write"}

C33_TableResetAfterDispatch ==
    /\ \A d \in Devs :
          TableReset(d) =>
              /\ ~InList(World, d)
              /\ msiplat[d].handler = {}
              /\ ~dev[d].block.allocated
    /\ \A d \in Devs : dev[d].handlers_ptr = NULL <=> dev[d].handler_count = 0
    /\ LegacySlotInHand =>
          /\ ~TableReset(loc["irq"].dev)
          /\ InList(World, loc["irq"].dev)
    /\ \A t \in MsiThreads :
          pc[t] # "idle" =>
              /\ ~TableReset(TheDev)
              /\ VectorOf(t) < dev[TheDev].handler_count
              /\ dev[TheDev].mode = "MSI"

\* The MSI teardown has unregistered the vectors and waits in FreeMsiBlock for a
\* dispatcher that is still in the driver's callback.
C33_Witness ==
    /\ pc["ctl"] = "drain"
    /\ pc["msi0"] = "callback"
    /\ msiplat[TheDev].handler = {}
    /\ ~TableReset(TheDev)

(***************************************************************************)
(* C34: a legacy dispatch that finds its device list empty, whether the    *)
(* platform vector was masked or not, whatever devices assert their pin    *)
(* and whatever their callbacks would return, leaves the vector masked,    *)
(* invokes no callback, changes no device (no command register is          *)
(* written), no dispatcher and no other vector, and returns                *)
(* NO_RESCHEDULE.                                                          *)
(***************************************************************************)
C34_SpuriousLegacyDispatch ==
    \A i \in Insts :
        (sh[i].live /\ sh[i].list = <<>>) =>
          \A m \in BOOLEAN, sts \in SUBSET Devs, r \in IrqRets :
            LET v == sh[i].irq_id
                w0 == [World EXCEPT !.vec[v].masked = m]
                hret == [d \in Devs |-> r]
                w == SharedLegacyIrqHandler_Handler(w0, i, sts, hret)
            IN /\ w.ret = "INT_NO_RESCHEDULE"
               /\ w.vec = [w0.vec EXCEPT ![v].masked = TRUE]
               /\ w.calls = <<>>
               /\ w.dev = dev
               /\ w.sh = sh /\ w.legacy_irq_list = legacy_irq_list
               /\ w.msiplat = msiplat
               /\ w.dbg = 0

\* A dispatcher with an empty list has run while the other dispatcher's device
\* is in LEGACY mode with its pin enabled and a callback registered.
C34_Witness ==
    /\ op.name = "legacy_irq"
    /\ sh[op.inst].list = <<>>
    /\ ret = "INT_NO_RESCHEDULE" /\ calls = <<>>
    /\ vec[sh[op.inst].irq_id].masked
    /\ \E d \in Devs :
          /\ dev[d].mode = "LEGACY" /\ "INT_DISABLE" \notin dev[d].command
          /\ dev[d].handlers[1].handler # NULL

(***************************************************************************)
(* C35: for every requested_irqs n in 1..32 the MME routine writes the     *)
(* least k with 2^k >= n: k <= 5, 2^k >= n, and k = 0 or 2^(k-1) < n, so   *)
(* that its three DEBUG_ASSERTs hold; the control register differs from    *)
(* its value before only in the MME field, and nothing else changes.  For  *)
(* every n that set_mode(MSI, n) accepts, the MME field after the call is  *)
(* that k.                                                                 *)
(***************************************************************************)
LeastPowerOfTwo(k, n) ==
    /\ k <= 5
    /\ 2^k >= n
    /\ k = 0 \/ 2^(k - 1) < n

C35_MmeIsCeilLog2 ==
    \A d \in Devs :
        dev[d].msi_cfg =>
            /\ \A n \in 1..PCIE_MAX_MSI_IRQS :
                  LET w == pcie_set_msi_multi_message_enb(World, d, n)
                      before == CtrlRead(World, d)
                      after == CtrlRead(w, d)
                  IN /\ LeastPowerOfTwo(CtrlMme(after), n)
                     /\ w.dbg = 0
                     /\ after - 16 * CtrlMme(after) = before - 16 * CtrlMme(before)
                     /\ w.dev = [dev EXCEPT ![d].ctrl.mme = CtrlMme(after)]
                     /\ w.sh = sh /\ w.vec = vec /\ w.msiplat = msiplat
            /\ \A n \in ReqIrqs :
                  LET w == pcie_set_irq_mode(World, d, "MSI", n, TRUE, TRUE)
                  IN (dev[d].mode = "DISABLED" /\ w.ret = "NO_ERROR")
                        => /\ n \in 1..PCIE_MAX_MSI_IRQS
                           /\ LeastPowerOfTwo(w.dev[d].ctrl.mme, n)
                           /\ w.dbg \notin {447, 451, 452, 453}

\* set_mode(MSI, 2) has returned NO_ERROR: MME is 1 and MSI is enabled.
C35_Witness ==
    /\ op.name = "set_mode" /\ ret = "NO_ERROR"
    /\ dev[op.d].mode = "MSI" /\ dev[op.d].handler_count = 2
    /\ dev[op.d].ctrl.mme = 1 /\ dev[op.d].ctrl.enb

(***************************************************************************)
(* C36: once pcie_init_device_irq_state has returned, whatever its result, *)
(* the device's legacy.shared_handler is null if and only if its           *)
(* legacy.pin is 0, so that no device passes the pin check of              *)
(* set_mode(LEGACY, 1) with a null dispatcher reference to attach through. *)
(***************************************************************************)
C36_SharedHandlerNullIffNoPin ==
    \A d \in Devs :
        (d = ScanDev => pc["scan"] = "idle")
            => (dev[d].shared_handler = NULL <=> dev[d].pin = 0)

(***************************************************************************)
(* C37: after a successful set_mode(MSI, n), for every n accepted, every   *)
(* vector index the device is enabled to signal (index < 2^MME) has a      *)
(* handler slot and the MSI dispatcher registered for it with the          *)
(* platform: 2^MME <= handler_count.  The device's advertised maximum is   *)
(* any power of two up to 2^MaxMmc, so that a request that is not a power  *)
(* of two is among those accepted.                                         *)
(***************************************************************************)
\* The largest value of the MMC field examined.
MaxMmc == 2
AdvertisedMaxIrqs == {2^k : k \in 0..MaxMmc}

\* The vector indices the device may signal: MME holds log2 of their number.
EnabledVectors(w, d) ==
    IF w.dev[d].ctrl.enb THEN 0..(2^w.dev[d].ctrl.mme - 1) ELSE {}

C37_EnabledVectorsHaveHandlers ==
    \A d \in Devs :
        /\ dev[d].mode = "MSI" =>
              \A v \in EnabledVectors(World, d) :
                  v < dev[d].handler_count /\ v \in msiplat[d].handler
        /\ (dev[d].mode = "DISABLED" /\ dev[d].msi_cfg) =>
              \A m \in AdvertisedMaxIrqs : \A n \in 1..m :
                  LET w0 == [World EXCEPT !.dev[d].max_irqs = m]
                      w == pcie_set_irq_mode(w0, d, "MSI", n, TRUE, TRUE)
                  IN w.ret = "NO_ERROR" =>
                        /\ 2^w.dev[d].ctrl.mme <= w.dev[d].handler_count
                        /\ \A v \in EnabledVectors(w, d) :
                              v < w.dev[d].handler_count
                              /\ v \in w.msiplat[d].handler

(***************************************************************************)
(* C38: in every state at the return of an operation with the device in an *)
(* active mode, a slot that is unmasked at the hardware level has a        *)
(* callback: in LEGACY mode INT_DISABLE clear implies the slot's callback  *)
(* is not null; in MSI mode, where a vector can be masked (PVM register or *)
(* platform masking), a slot whose masked flag is false has a callback     *)
(* that is not null.                                                       *)
(***************************************************************************)
UnmaskedSlots(d) ==
    CASE dev[d].mode = "LEGACY" ->
            IF "INT_DISABLE" \in dev[d].command THEN {} ELSE {0}
      [] dev[d].mode = "MSI" /\ (dev[d].pvm \/ platform.supports_msi_masking) ->
            {i \in 0..(dev[d].handler_count - 1) : ~dev[d].handlers[i + 1].masked}
      [] OTHER -> {}

C38_UnmaskedSlotHasCallback ==
    \A d \in Devs :
        \A i \in UnmaskedSlots(d) : dev[d].handlers[i + 1].handler # NULL

(***************************************************************************)
(* C39: every call of pcie_set_irq_mode_internal and of                    *)
(* pcie_mask_unmask_irq_internal that the public wrappers let through      *)
(* finds the device plugged in: for every mode, requested_irqs, irq_id and *)
(* mask, whether the device is plugged in or not and disabled or not, the  *)
(* operation does not trip the entry assertion of line 619 or of line 725. *)
(***************************************************************************)
EntryAssertions == {619, 725}

C39_InternalEntryAssertionsHold ==
    /\ dbg \notin EntryAssertions
    /\ \A d \in Devs :
          /\ \A mode \in Modes, n \in ReqIrqs :
                pcie_set_irq_mode(World, d, mode, n, TRUE, TRUE).dbg
                    \notin EntryAssertions
          /\ \A irq_id \in 0..MaxIrqs, mask \in BOOLEAN :
                pcie_mask_unmask_irq(World, d, irq_id, mask).dbg
                    \notin EntryAssertions

(***************************************************************************)
(* C40: with the interrupt of slot 0 taken by two cores at once, in legacy *)
(* mode and in MSI mode, no two cores are inside the slot's callback at    *)
(* the same time; a core inside the callback holds the slot's lock and the *)
(* slot still has the callback and the ctx the core entered with; no step  *)
(* taken while a core stays inside the callback changes the slot's         *)
(* callback, ctx or masked flag; and a core that is inside a pass of the   *)
(* shared legacy handler holds the list lock, so that the callbacks of the *)
(* devices of one dispatcher never run concurrently.                       *)
(***************************************************************************)
AllCores == LegacyCores \cup Slot0Cores
InLegacyPass(t) ==
    pc[t] \in {"pass", "read", "slot_lock", "callback", "force_tmp", "force_read",
               "force_write"}

CallbacksSerialised ==
    /\ \A t1, t2 \in AllCores :
          InCallback(t1) /\ InCallback(t2) => t1 = t2
    /\ \A t \in AllCores :
          InCallback(t) =>
              /\ lock["slot0"] = t
              /\ Len(dev[TheDev].handlers) >= 1
              /\ dev[TheDev].handlers[1].handler = loc[t].handler
              /\ dev[TheDev].handlers[1].ctx = loc[t].ctx
              /\ loc[t].handler # NULL
    /\ \A t \in LegacyCores : InLegacyPass(t) => lock["list_lock"] = t

SlotStableDuringCallback ==
    \A t \in AllCores :
        InCallback(t) /\ pc'[t] = "callback" =>
            /\ Len(dev'[TheDev].handlers) >= 1
            /\ dev'[TheDev].handlers[1] = dev[TheDev].handlers[1]

C40_CallbacksOfASlotNeverOverlap ==
    []CallbacksSerialised /\ [][SlotStableDuringCallback]_vars

\* Core msi0 is inside the callback of slot 0 while core msi2, which took the
\* same vector, and register_handler(0, ...) both wait for the slot's lock.
C40_Witness ==
    /\ dev[TheDev].mode = "MSI"
    /\ InCallback("msi0")
    /\ pc["msi2"] = "lock"
    /\ pc["ctl"] = "reg_lock"
    /\ loc["ctl"].handler # dev[TheDev].handlers[1].handler
====
